---- MODULE Spec2Model ----
(***************************************************************************)
(* A model of minicel-rs: the engine that evaluates the formula cells of   *)
(* a CSV sheet (src/src/engine.rs), its row reconciliation and column      *)
(* labels (src/src/utils.rs), the builtins (src/src/builtins.rs), the      *)
(* tokenizer and the parser of formulas (src/src/tokenizer.rs,             *)
(* src/src/parser.rs) and the expression tree (src/src/ast.rs).            *)
(*                                                                         *)
(* A Rust String is modelled as a sequence of one-character strings, so    *)
(* that trimming, splitting, tokenizing and formatting are computed and    *)
(* not assumed.  A MinicelResult is a record with kind "Ok" or "Err"; a    *)
(* panic of the program (an index out of range, a failed expect, a         *)
(* division by zero) is the outcome of kind "Panic", and the exhaustion    *)
(* of the call stack is the outcome of kind "StackOverflow".               *)
(***************************************************************************)
EXTENDS Integers, Sequences, FiniteSets, TLC

----------------------------------------------------------------------------
(* Bounds of the model. *)

\* data lines of a sheet, after the header line
MaxRows == 2
\* nested execute_field / get_field calls before the call stack is exhausted
MaxDepth == 3
\* letters of a column label given to col_number_from_alpha
MaxLabelLen == 2
\* digits a quotient is carried to (the decimal library's precision limit)
MaxPrecision == 3

----------------------------------------------------------------------------
(* Characters and text. *)

UpperLetters ==
    << "A", "B", "C", "D", "E", "F", "G", "H", "I", "J", "K", "L", "M",
       "N", "O", "P", "Q", "R", "S", "T", "U", "V", "W", "X", "Y", "Z" >>

LowerLetters ==
    << "a", "b", "c", "d", "e", "f", "g", "h", "i", "j", "k", "l", "m",
       "n", "o", "p", "q", "r", "s", "t", "u", "v", "w", "x", "y", "z" >>

DigitChars == << "0", "1", "2", "3", "4", "5", "6", "7", "8", "9" >>

Range(s) == { s[i] : i \in 1..Len(s) }

IsUpper(c) == c \in Range(UpperLetters)
IsLower(c) == c \in Range(LowerLetters)
IsDigit(c) == c \in Range(DigitChars)
IsAsciiAlphabetic(c) == IsUpper(c) \/ IsLower(c)
IsWhitespace(c) == c \in {" ", "\t"}

\* the value of a decimal digit character
DigitValue(c) == (CHOOSE i \in 1..10 : DigitChars[i] = c) - 1

\* `c as u8` for a letter
AsciiCode(c) ==
    IF IsUpper(c) THEN 64 + (CHOOSE i \in 1..26 : UpperLetters[i] = c)
    ELSE 96 + (CHOOSE i \in 1..26 : LowerLetters[i] = c)

\* str::trim_start: the text from its first character that is not whitespace
TrimStart(s) ==
    IF \A i \in 1..Len(s) : IsWhitespace(s[i]) THEN <<>>
    ELSE SubSeq(s, CHOOSE i \in 1..Len(s) :
                     ~IsWhitespace(s[i]) /\ \A j \in 1..(i - 1) : IsWhitespace(s[j]),
                Len(s))

\* str::trim_end: the text up to its last character that is not whitespace
TrimEnd(s) ==
    IF \A i \in 1..Len(s) : IsWhitespace(s[i]) THEN <<>>
    ELSE SubSeq(s, 1, CHOOSE i \in 1..Len(s) :
                        ~IsWhitespace(s[i])
                        /\ \A j \in (i + 1)..Len(s) : IsWhitespace(s[j]))

\* str::trim
Trim(s) == TrimEnd(TrimStart(s))

\* the indices of the commas of a text
Commas(s) == { i \in 1..Len(s) : s[i] = "," }

\* the index of the k-th comma of a text; 0 before the first, and the index
\* after the text's end beyond the last
CommaAt(s, k) ==
    IF k = 0 THEN 0
    ELSE IF k > Cardinality(Commas(s)) THEN Len(s) + 1
    ELSE CHOOSE i \in Commas(s) : Cardinality({ j \in Commas(s) : j < i }) = k - 1

\* str::split(','): the fields between the commas, at least one
Split(s) ==
    [k \in 1..(Cardinality(Commas(s)) + 1) |->
        SubSeq(s, CommaAt(s, k - 1) + 1, CommaAt(s, k) - 1)]

\* str::starts_with('=')
StartsWithEq(s) == s # <<>> /\ Head(s) = "="

\* str::trim_start_matches('='): the text after its leading '=' characters
TrimStartEq(s) ==
    IF \A i \in 1..Len(s) : s[i] = "=" THEN <<>>
    ELSE SubSeq(s, CHOOSE i \in 1..Len(s) :
                     s[i] # "=" /\ \A j \in 1..(i - 1) : s[j] = "=",
                Len(s))

\* the decimal digits of a natural number
RECURSIVE NatText(_)
NatText(n) ==
    IF n < 10 THEN << DigitChars[n + 1] >>
    ELSE Append(NatText(n \div 10), DigitChars[(n % 10) + 1])

\* texts joined by a separator
RECURSIVE Join(_, _)
Join(parts, sep) ==
    IF parts = <<>> THEN <<>>
    ELSE IF Len(parts) = 1 THEN parts[1]
    ELSE parts[1] \o sep \o Join(Tail(parts), sep)

----------------------------------------------------------------------------
(* Results. *)

Ok(v) == [kind |-> "Ok", value |-> v]

\* MinicelError::new(kind, message, line_number); the message is kept as
\* its format string followed by the formatted arguments
MinicelError(k, message, line) ==
    [kind |-> "Err",
     err |-> [kind |-> k, message |-> message, line_number |-> line]]

Panic(why) == [kind |-> "Panic", why |-> why]

StackOverflow == [kind |-> "StackOverflow"]

IsOk(r) == r.kind = "Ok"
IsErr(r) == r.kind = "Err"

\* `let value = expression;`: the expression is evaluated once and its value
\* is what the rest of the block reads
Bind(value, Rest(_)) == CHOOSE r \in { Rest(v) : v \in { value } } : TRUE

----------------------------------------------------------------------------
(* Exact decimals (BigDecimal): an integer and a scale, int * 10^(-scale). *)

Dec(i, s) == [int |-> i, scale |-> s]

Abs(i) == IF i < 0 THEN -i ELSE i

RECURSIVE Pow10(_)
Pow10(k) == IF k <= 0 THEN 1 ELSE 10 * Pow10(k - 1)

Max(a, b) == IF a >= b THEN a ELSE b

\* the first index of a character of set cs in s, 0 when there is none
FindChar(s, cs) ==
    IF \E i \in 1..Len(s) : s[i] \in cs
    THEN CHOOSE i \in 1..Len(s) : s[i] \in cs /\ \A j \in 1..(i - 1) : s[j] \notin cs
    ELSE 0

RECURSIVE DigitsValue(_)
DigitsValue(s) ==
    IF s = <<>> THEN 0
    ELSE 10 * DigitsValue(SubSeq(s, 1, Len(s) - 1)) + DigitValue(s[Len(s)])

\* BigInt::from_str: an optional sign, then one digit or more
BigIntFromStr(s) ==
    LET signed == s # <<>> /\ Head(s) \in {"+", "-"}
        body == IF signed THEN Tail(s) ELSE s
    IN  IF body # <<>> /\ \A i \in 1..Len(body) : IsDigit(body[i])
        THEN [ok |-> TRUE,
              int |-> IF signed /\ Head(s) = "-" THEN -DigitsValue(body)
                      ELSE DigitsValue(body)]
        ELSE [ok |-> FALSE, int |-> 0]

\* BigDecimal::from_str: the text is cut at its first '.', the two parts are
\* joined and read as an integer, and the scale is the length of the second
\* part.  Texts with an exponent ('e' or 'E' between two numbers) are not
\* among the cells of this model, and a text holding either letter is read
\* here as not a number.
DecimalFromStr(s) ==
    LET dot == FindChar(s, {"."})
        lead == IF dot = 0 THEN s ELSE SubSeq(s, 1, dot - 1)
        trail == IF dot = 0 THEN <<>> ELSE SubSeq(s, dot + 1, Len(s))
        big == BigIntFromStr(lead \o trail)
    IN  IF FindChar(s, {"e", "E"}) # 0 \/ s = <<>> \/ ~big.ok
        THEN [ok |-> FALSE, n |-> Dec(0, 0)]
        ELSE [ok |-> TRUE, n |-> Dec(big.int, Len(trail))]

RECURSIVE Zeros(_)
Zeros(k) == IF k <= 0 THEN <<>> ELSE << "0" >> \o Zeros(k - 1)

\* Display of a BigDecimal
DecimalToString(n) ==
    LET abs_int == NatText(Abs(n.int))
        len == Len(abs_int)
        before == IF n.scale >= len THEN << "0" >>
                  ELSE IF n.scale < 0 THEN abs_int \o Zeros(-n.scale)
                  ELSE SubSeq(abs_int, 1, len - n.scale)
        after == IF n.scale >= len THEN Zeros(n.scale - len) \o abs_int
                 ELSE IF n.scale < 0 THEN <<>>
                 ELSE SubSeq(abs_int, len - n.scale + 1, len)
        unsigned == IF after # <<>> THEN before \o << "." >> \o after ELSE before
    IN  IF n.int < 0 THEN << "-" >> \o unsigned ELSE unsigned

DecAdd(a, b) ==
    LET s == Max(a.scale, b.scale)
    IN  Dec(a.int * Pow10(s - a.scale) + b.int * Pow10(s - b.scale), s)

DecSub(a, b) ==
    LET s == Max(a.scale, b.scale)
    IN  Dec(a.int * Pow10(s - a.scale) - b.int * Pow10(s - b.scale), s)

DecMul(a, b) == Dec(a.int * b.int, a.scale + b.scale)

CountDigits(i) == Len(NatText(Abs(i)))

\* the long division of two positive integers: the numerator is shifted
\* until it is not smaller than the denominator, then one digit is produced
\* per step until the remainder is zero or the precision limit is reached
RECURSIVE ShiftUp(_, _, _)
ShiftUp(num, den, scale) ==
    IF num < den THEN ShiftUp(num * 10, den, scale + 1)
    ELSE [num |-> num, scale |-> scale]

RECURSIVE DivDigits(_, _, _, _, _)
DivDigits(quotient, remainder, den, scale, precision) ==
    IF remainder # 0 /\ precision < MaxPrecision
    THEN DivDigits(quotient * 10 + (remainder \div den),
                   (remainder % den) * 10, den, scale + 1, precision + 1)
    ELSE IF remainder # 0
         THEN Dec(quotient + (IF (remainder \div den) >= 5 THEN 1 ELSE 0), scale)
         ELSE Dec(quotient, scale)

ImplDivision(num, den, scale) ==
    LET sh == ShiftUp(num, den, scale)
        q == sh.num \div den
        r == sh.num % den
    IN  IF r = 0 THEN Dec(q, sh.scale)
        ELSE DivDigits(q, r * 10, den, sh.scale, CountDigits(q))

\* `n1 / n2` of two BigDecimal, for a divisor that is not zero
DecDiv(a, b) ==
    LET scale == a.scale - b.scale
        quot == ImplDivision(Abs(a.int), Abs(b.int), scale)
    IN  IF a.int = 0 \/ (b.int = 1 /\ b.scale = 0) THEN a
        ELSE IF a.int = b.int THEN Dec(1, scale)
        ELSE IF (a.int < 0) # (b.int < 0) THEN Dec(-quot.int, quot.scale)
        ELSE quot

----------------------------------------------------------------------------
(* The tokenizer (src/src/tokenizer.rs). *)

Identifier(s) == [t |-> "Identifier", s |-> s]
StringToken(s) == [t |-> "String", s |-> s]
NumberToken(n) == [t |-> "Number", n |-> n]
Punct(t) == [t |-> t]

IsIdentChar(c) == c = "_" \/ IsAsciiAlphabetic(c) \/ IsDigit(c)

\* read_string, entered after the opening quote: the text up to the next
\* quote; next is the index after what was consumed
read_string(field, i, line_number) ==
    LET close == IF \E j \in i..Len(field) : field[j] = "\""
                 THEN CHOOSE j \in i..Len(field) :
                        field[j] = "\"" /\ \A k \in i..(j - 1) : field[k] # "\""
                 ELSE 0
    IN  IF close # 0
        THEN [kind |-> "Ok", token |-> StringToken(SubSeq(field, i, close - 1)),
              next |-> close + 1]
        ELSE MinicelError("Tokenizer", << "String is not closed" >>, line_number)

\* the loop of read_number from index i with the text accumulated so far
RECURSIVE ReadNumberLoop(_, _, _, _, _, _)
ReadNumberLoop(field, i, number, is_float, is_negative, line_number) ==
    IF i > Len(field) THEN [kind |-> "Ok", number |-> number, next |-> i]
    ELSE LET c == field[i]
         IN  IF IsDigit(c)
             THEN ReadNumberLoop(field, i + 1, Append(number, c), is_float,
                                 is_negative, line_number)
             ELSE IF c = "."
             THEN IF is_float
                  THEN MinicelError("Tokenizer", << "Invalid float number" >>,
                                    line_number)
                  ELSE ReadNumberLoop(field, i + 1, Append(number, c), TRUE,
                                      is_negative, line_number)
             ELSE IF c = "-"
             THEN IF is_negative \/ number # <<>>
                  THEN MinicelError("Tokenizer", << "Invalid negative number" >>,
                                    line_number)
                  ELSE ReadNumberLoop(field, i + 1, Append(number, c), is_float,
                                      TRUE, line_number)
             ELSE [kind |-> "Ok", number |-> number, next |-> i]

\* read_number: the accumulated text is read as a decimal, and the program
\* panics (expect) when it is not one
read_number(field, i, line_number) ==
    Bind(ReadNumberLoop(field, i, <<>>, FALSE, FALSE, line_number), LAMBDA got :
      IF got.kind # "Ok" THEN got
      ELSE Bind(DecimalFromStr(got.number), LAMBDA parsed :
             IF parsed.ok
             THEN [kind |-> "Ok", token |-> NumberToken(parsed.n),
                   next |-> got.next]
             ELSE Panic("is a number")))

\* read_identifier: the longest run of letters, digits and '_'
read_identifier(field, i) ==
    LET stop == IF \E j \in i..Len(field) : ~IsIdentChar(field[j])
                THEN CHOOSE j \in i..Len(field) :
                       ~IsIdentChar(field[j])
                       /\ \A k \in i..(j - 1) : IsIdentChar(field[k])
                ELSE Len(field) + 1
    IN  [kind |-> "Ok", token |-> Identifier(SubSeq(field, i, stop - 1)),
         next |-> stop]

PunctOf(c) ==
    CASE c = ";" -> "Semicolon"
      [] c = "(" -> "LeftParenthesis"
      [] c = ")" -> "RightParenthesis"
      [] c = "[" -> "LeftBracket"
      [] c = "]" -> "RightBracket"

RECURSIVE TokenizeFrom(_, _, _, _)
TokenizeFrom(field, i, tokens, line_number) ==
    IF i > Len(field) THEN Ok(tokens)
    ELSE LET c == field[i]
         IN  IF c \in {";", "(", ")", "[", "]"}
             THEN TokenizeFrom(field, i + 1, Append(tokens, Punct(PunctOf(c))),
                               line_number)
             ELSE IF c = "\"" \/ IsDigit(c) \/ c = "-" \/ c = "_"
                     \/ IsAsciiAlphabetic(c)
             THEN Bind(IF c = "\"" THEN read_string(field, i + 1, line_number)
                       ELSE IF IsDigit(c) \/ c = "-"
                            THEN read_number(field, i, line_number)
                       ELSE read_identifier(field, i),
                       LAMBDA got :
                         IF got.kind = "Ok"
                         THEN TokenizeFrom(field, got.next,
                                           Append(tokens, got.token), line_number)
                         ELSE got)
             ELSE IF IsWhitespace(c)
             THEN TokenizeFrom(field, i + 1, tokens, line_number)
             ELSE MinicelError("Tokenizer", << "Unknown character: ", c >>,
                               line_number)

\* tokenize(field, line_number)
tokenize(field, line_number) == TokenizeFrom(field, 1, <<>>, line_number)

----------------------------------------------------------------------------
(* Expressions (src/src/ast.rs). *)

FunctionCallExpression(name, arguments, line_number) ==
    [e |-> "FunctionCall", name |-> name, arguments |-> arguments,
     line_number |-> line_number]
FieldExpr(col, row) == [e |-> "Field", col |-> col, row |-> row, value |-> <<>>]
NumberExpr(n) == [e |-> "Number", n |-> n]
StringExpr(s) == [e |-> "String", s |-> s]
BooleanExpr(b) == [e |-> "Boolean", b |-> b]
ArrayExpr(elements) == [e |-> "Array", elements |-> elements]

TrueText == << "t", "r", "u", "e" >>
FalseText == << "f", "a", "l", "s", "e" >>

----------------------------------------------------------------------------
(* The parser (src/src/parser.rs): tokens is the token sequence and p the  *)
(* index of the next token; a successful step returns the index after what *)
(* it consumed.                                                            *)

ParseError(message, line_number) == MinicelError("Parse", message, line_number)

\* parse_identifier
parse_identifier(tokens, p, line_number) ==
    IF p > Len(tokens)
    THEN ParseError(<< "Expected identifier, found EOF" >>, line_number)
    ELSE IF tokens[p].t = "Identifier"
    THEN [kind |-> "Ok", identifier |-> tokens[p].s, next |-> p + 1]
    ELSE ParseError(<< "Expected identifier, found ", tokens[p].t >>, line_number)

\* chars().take_while(is_ascii_alphabetic): the length of the leading run
AlphaRun(s) ==
    IF \E j \in 1..Len(s) : ~IsAsciiAlphabetic(s[j])
    THEN (CHOOSE j \in 1..Len(s) :
            ~IsAsciiAlphabetic(s[j]) /\ \A k \in 1..(j - 1) : IsAsciiAlphabetic(s[k])) - 1
    ELSE Len(s)

\* u64::MAX in decimal: 18446744073709551615
U64MaxText ==
    << "1", "8", "4", "4", "6", "7", "4", "4", "0", "7", "3", "7", "0", "9",
       "5", "5", "1", "6", "1", "5" >>

\* a text of digits without its leading zeros
StripZeros(s) ==
    IF \A i \in 1..Len(s) : s[i] = "0" THEN <<>>
    ELSE SubSeq(s, CHOOSE i \in 1..Len(s) :
                     s[i] # "0" /\ \A j \in 1..(i - 1) : s[j] = "0",
                Len(s))

\* the order of two texts of digits of the same length
DigitsLeq(a, b) ==
    \/ a = b
    \/ \E i \in 1..Len(a) :
         /\ \A j \in 1..(i - 1) : a[j] = b[j]
         /\ DigitValue(a[i]) < DigitValue(b[i])

\* whether the number a text of digits spells is at most u64::MAX
FitsU64(s) ==
    \/ Len(StripZeros(s)) < Len(U64MaxText)
    \/ /\ Len(StripZeros(s)) = Len(U64MaxText)
       /\ DigitsLeq(StripZeros(s), U64MaxText)

\* str::parse::<u64> of the row run of an identifier (letters, digits, '_'):
\* it fails on an empty text, on a character that is not a digit and on a
\* number above u64::MAX
U64FromStr(s) ==
    IF s # <<>> /\ (\A i \in 1..Len(s) : IsDigit(s[i])) /\ FitsU64(s)
    THEN [ok |-> TRUE, value |-> DigitsValue(s)]
    ELSE [ok |-> FALSE, value |-> 0]

\* parse_field without the test of row 0: the variant the rejection of row 0
\* is told apart from
parse_field_row_from_zero(tokens, p, line_number) ==
    Bind(parse_identifier(tokens, p, line_number), LAMBDA id :
      IF id.kind # "Ok" THEN id
      ELSE Bind(U64FromStr(SubSeq(id.identifier, AlphaRun(id.identifier) + 1,
                                  Len(id.identifier))), LAMBDA row :
             IF ~row.ok
             THEN ParseError(<< "Invalid field identifier, expected a row number after the column ">>
                             \o SubSeq(id.identifier, 1, AlphaRun(id.identifier))
                             \o << " but found " >>
                             \o SubSeq(id.identifier, AlphaRun(id.identifier) + 1,
                                       Len(id.identifier)), line_number)
             ELSE [kind |-> "Ok",
                   expr |-> FieldExpr(SubSeq(id.identifier, 1,
                                             AlphaRun(id.identifier)), row.value),
                   next |-> id.next]))

\* parse_field
parse_field(tokens, p, line_number) ==
    Bind(parse_identifier(tokens, p, line_number), LAMBDA id :
      IF id.kind # "Ok" THEN id
      ELSE Bind(AlphaRun(id.identifier), LAMBDA run_len :
        Bind(SubSeq(id.identifier, 1, run_len), LAMBDA col :
          Bind(SubSeq(id.identifier, run_len + 1, Len(id.identifier)), LAMBDA rowText :
            Bind(U64FromStr(rowText), LAMBDA row :
              IF ~row.ok
              THEN ParseError(<< "Invalid field identifier, expected a row number after the column ">>
                              \o col \o << " but found " >> \o rowText, line_number)
              ELSE IF row.value = 0
              THEN ParseError(<< "Invalid field identifier, row number starts from 1, found 0" >>,
                              line_number)
              ELSE [kind |-> "Ok", expr |-> FieldExpr(col, row.value),
                    next |-> id.next])))))

RECURSIVE parse_expression(_, _, _)
RECURSIVE parse_function_call(_, _, _)
RECURSIVE ParseGroupLoop(_, _, _, _, _)

\* the loop shared by parse_array and parse_arguments: expressions up to the
\* closing token, semicolons skipped
ParseGroupLoop(tokens, p, items, closer, line_number) ==
    IF p > Len(tokens)
    THEN ParseError(<< "Expected ", closer, ", found EOF" >>, line_number)
    ELSE IF tokens[p].t = closer
    THEN [kind |-> "Ok", items |-> items, next |-> p + 1]
    ELSE IF tokens[p].t = "Semicolon"
    THEN ParseGroupLoop(tokens, p + 1, items, closer, line_number)
    ELSE Bind(parse_expression(tokens, p, line_number), LAMBDA x :
           IF x.kind # "Ok" THEN x
           ELSE ParseGroupLoop(tokens, x.next, Append(items, x.expr), closer,
                               line_number))

\* parse_array
parse_array(tokens, p, line_number) ==
    IF p > Len(tokens)
    THEN ParseError(<< "Expected left bracket, found EOF" >>, line_number)
    ELSE IF tokens[p].t # "LeftBracket"
    THEN ParseError(<< "Expected left bracket, found ", tokens[p].t >>, line_number)
    ELSE Bind(ParseGroupLoop(tokens, p + 1, <<>>, "RightBracket", line_number),
              LAMBDA g :
                IF g.kind # "Ok" THEN g
                ELSE [kind |-> "Ok", expr |-> ArrayExpr(g.items), next |-> g.next])

\* parse_arguments
parse_arguments(tokens, p, line_number) ==
    IF p > Len(tokens)
    THEN ParseError(<< "Expected left parenthesis, found EOF" >>, line_number)
    ELSE IF tokens[p].t # "LeftParenthesis"
    THEN ParseError(<< "Expected left parenthesis, found ", tokens[p].t >>, line_number)
    ELSE ParseGroupLoop(tokens, p + 1, <<>>, "RightParenthesis", line_number)

\* parse_expression
parse_expression(tokens, p, line_number) ==
    IF p > Len(tokens)
    THEN ParseError(<< "Expected expression, found EOF" >>, line_number)
    ELSE LET token == tokens[p]
         IN  CASE token.t = "Identifier" ->
                    IF p + 1 <= Len(tokens) /\ tokens[p + 1].t = "LeftParenthesis"
                    THEN parse_function_call(tokens, p, line_number)
                    ELSE IF token.s = TrueText \/ token.s = FalseText
                    THEN [kind |-> "Ok", expr |-> BooleanExpr(token.s = TrueText),
                          next |-> p + 1]
                    ELSE parse_field(tokens, p, line_number)
               [] token.t = "Number" ->
                    [kind |-> "Ok", expr |-> NumberExpr(token.n), next |-> p + 1]
               [] token.t = "String" ->
                    [kind |-> "Ok", expr |-> StringExpr(token.s), next |-> p + 1]
               [] token.t = "LeftBracket" -> parse_array(tokens, p, line_number)
               [] OTHER ->
                    ParseError(<< "Expected expression, found ", token.t >>, line_number)

\* parse_function_call
parse_function_call(tokens, p, line_number) ==
    Bind(parse_identifier(tokens, p, line_number), LAMBDA id :
      IF id.kind # "Ok" THEN id
      ELSE Bind(parse_arguments(tokens, id.next, line_number), LAMBDA args :
             IF args.kind # "Ok" THEN args
             ELSE [kind |-> "Ok",
                   expr |-> FunctionCallExpression(id.identifier, args.items,
                                                   line_number),
                   next |-> args.next]))

\* Parser::parse: the Ast of the function call the tokens start with
parse(tokens, line_number) ==
    Bind(parse_function_call(tokens, 1, line_number), LAMBDA call :
      IF call.kind # "Ok" THEN call
      ELSE [kind |-> "Ok", ast |-> [function |-> call.expr]])

----------------------------------------------------------------------------
(* State. *)

VARIABLES
    lines,            \* Engine.lines: the lines of the CSV text, header first
    rows,             \* Engine.rows: the number of lines minus the header
    updated_records,  \* Engine.updated_records: pairs (row, record snapshot)
    run,              \* Engine::run: the loop position and whether it ended
    out,              \* the records written to the output file, in order
    call,             \* the operation a client applied last, with its inputs
    result,           \* the outcome of the operation applied last
    history           \* per cell, the successful update_field calls so far

vars == << lines, rows, updated_records, run, out, call, result, history >>

----------------------------------------------------------------------------
(* Helpers of src/src/utils.rs. *)

\* the loop of col_number_from_alpha: col *= 26; col += (c as u8 - b'A') + 1.
\* The subtraction is made on u8: below 'A' it overflows (no letter does).
RECURSIVE AlphaLoop(_, _)
AlphaLoop(alpha, col) ==
    IF alpha = <<>> THEN col
    ELSE AlphaLoop(Tail(alpha), col * 26 + (AsciiCode(Head(alpha)) - 65) + 1)

\* col_number_from_alpha without the final `- 1`: the variant the 0-based
\* index is told apart from
col_number_from_alpha_one_based(alpha) == AlphaLoop(alpha, 0)

\* col_number_from_alpha: col - 1.  The label of a Field is never empty (an
\* identifier starts with a letter or with '_', and a row run that starts
\* with '_' is rejected by parse_field), so col is at least 1 here.
col_number_from_alpha(alpha) == AlphaLoop(alpha, 0) - 1

Min(a, b) == IF a <= b THEN a ELSE b

\* a reconciliation that keeps nothing of the earlier snapshot: the variant
\* of compare_records the accumulation of updates is told apart from
compare_records_keep_new(static_record, old_record, new_record) == new_record

\* compare_records: the three records are zipped as ((static, new), old)
\* while the closure names the pair's members (static_field, old_field) and
\* the last one new_filed, so that old_field is the field of new_record and
\* new_filed the field of old_record.
compare_records(static_record, old_record, new_record) ==
    [i \in 1..Min(Len(static_record), Min(Len(new_record), Len(old_record))) |->
        LET static_field == Trim(static_record[i])
            old_field == Trim(new_record[i])
            new_filed == Trim(old_record[i])
        IN  IF new_filed = static_field /\ new_filed # old_field
            THEN old_field
            ELSE new_filed]

\* parse_string_to_expression
parse_string_to_expression(string) ==
    IF DecimalFromStr(string).ok
    THEN NumberExpr(DecimalFromStr(string).n)
    ELSE StringExpr(string)

----------------------------------------------------------------------------
(* Builtins (src/src/builtins.rs). *)

PrintName == << "p", "r", "i", "n", "t" >>
SumName == << "s", "u", "m" >>
SubName == << "s", "u", "b" >>
MulName == << "m", "u", "l" >>
DivName == << "d", "i", "v" >>

\* is_builtin
is_builtin(name) == name \in {PrintName, SumName, SubName, MulName, DivName}

CommaSpace == << ",", " " >>

\* Display of an Expression
RECURSIVE ExprToString(_)
ExprToString(x) ==
    CASE x.e = "FunctionCall" ->
           (IF is_builtin(x.name)
            THEN << "b", "u", "i", "l", "t", "i", "n", " ", "f", "u", "n", "c",
                    "t", "i", "o", "n", ":", " " >>
            ELSE << "f", "u", "n", "c", "t", "i", "o", "n", ":", " " >>)
           \o x.name \o << "(" >>
           \o Join([i \in 1..Len(x.arguments) |-> ExprToString(x.arguments[i])],
                   CommaSpace)
           \o << ")" >>
      [] x.e = "Field" -> x.value
      [] x.e = "Number" -> DecimalToString(x.n)
      [] x.e = "String" -> x.s
      [] x.e = "Boolean" -> IF x.b THEN TrueText ELSE FalseText
      [] x.e = "Array" ->
           << "[" >>
           \o Join([i \in 1..Len(x.elements) |-> ExprToString(x.elements[i])],
                   CommaSpace)
           \o << "]" >>

\* a FunctionResult that failed with a message
Failure(message) == [kind |-> "Err", message |-> message]

\* print
print(args) ==
    Ok(Join([i \in 1..Len(args) |-> ExprToString(args[i])], CommaSpace))

\* the argument check shared by sum, sub, mul and div
ArithFailure(args) ==
    IF Len(args) # 2
    THEN Failure(<< "Expected 2 arguments, found " >> \o NatText(Len(args)))
    ELSE Failure(<< "Expected numbers found " >> \o ExprToString(args[2])
                 \o << " and " >> \o ExprToString(args[1]))

BothNumbers(args) ==
    Len(args) = 2 /\ args[1].e = "Number" /\ args[2].e = "Number"

\* sum
sum(args) ==
    IF BothNumbers(args) THEN Ok(DecimalToString(DecAdd(args[1].n, args[2].n)))
    ELSE ArithFailure(args)

\* sub
sub(args) ==
    IF BothNumbers(args) THEN Ok(DecimalToString(DecSub(args[1].n, args[2].n)))
    ELSE ArithFailure(args)

\* mul
mul(args) ==
    IF BothNumbers(args) THEN Ok(DecimalToString(DecMul(args[1].n, args[2].n)))
    ELSE ArithFailure(args)

\* div: the division of BigDecimal panics on a zero divisor
div(args) ==
    IF BothNumbers(args)
    THEN IF args[2].n.int = 0 THEN Panic("Division by zero")
         ELSE Ok(DecimalToString(DecDiv(args[1].n, args[2].n)))
    ELSE ArithFailure(args)

\* call_builtin: Some(result) for a builtin's name, None otherwise
call_builtin(name, args) ==
    CASE name = PrintName -> [some |-> TRUE, result |-> print(args)]
      [] name = SumName -> [some |-> TRUE, result |-> sum(args)]
      [] name = SubName -> [some |-> TRUE, result |-> sub(args)]
      [] name = MulName -> [some |-> TRUE, result |-> mul(args)]
      [] name = DivName -> [some |-> TRUE, result |-> div(args)]
      [] OTHER -> [some |-> FALSE]

----------------------------------------------------------------------------
(* The expression tree's leaves (src/src/ast.rs).  A `&mut Expression` is  *)
(* the path of the node: the indices to follow from the root call's        *)
(* arguments, through arguments of calls and elements of arrays.           *)

Children(x) ==
    IF x.e = "FunctionCall" THEN x.arguments
    ELSE IF x.e = "Array" THEN x.elements
    ELSE <<>>

RECURSIVE Flatten(_)
Flatten(seqs) == IF seqs = <<>> THEN <<>> ELSE Head(seqs) \o Flatten(Tail(seqs))

\* Expression::mut_children at the node of path `path`: a call or an array
\* gives the leaves of its members, any other node gives itself
RECURSIVE ExprMutChildren(_, _)
ExprMutChildren(x, path) ==
    IF x.e \in {"FunctionCall", "Array"}
    THEN Flatten([i \in 1..Len(Children(x)) |->
                    ExprMutChildren(Children(x)[i], Append(path, i))])
    ELSE << path >>

\* Ast::mut_children with the leaves taken from the last argument to the
\* first: the variant the left-to-right order of the lookups is told apart
\* from
mut_children_reversed(ast) ==
    Flatten([i \in 1..Len(ast.function.arguments) |->
               ExprMutChildren(
                 ast.function.arguments[Len(ast.function.arguments) + 1 - i],
                 << Len(ast.function.arguments) + 1 - i >>)])

\* Ast::mut_children: the leaves of the arguments of the root call, in order
mut_children(ast) ==
    Flatten([i \in 1..Len(ast.function.arguments) |->
               ExprMutChildren(ast.function.arguments[i], << i >>)])

WithChildren(x, children) ==
    IF x.e = "FunctionCall" THEN [x EXCEPT !.arguments = children]
    ELSE [x EXCEPT !.elements = children]

\* the node a path leads to, from a sequence of expressions
RECURSIVE NodeAt(_, _)
NodeAt(exprs, path) ==
    IF Len(path) = 1 THEN exprs[path[1]]
    ELSE NodeAt(Children(exprs[path[1]]), Tail(path))

\* the assignment `*expr = value` through a path
RECURSIVE AssignAt(_, _, _)
AssignAt(exprs, path, value) ==
    IF Len(path) = 1 THEN [exprs EXCEPT ![path[1]] = value]
    ELSE [exprs EXCEPT ![path[1]] =
            WithChildren(@, AssignAt(Children(@), Tail(path), value))]

----------------------------------------------------------------------------
(* The engine (src/src/engine.rs). *)

EngineError(message, line_number) == MinicelError("Engine", message, line_number)

\* the first snapshot of a row in updated_records, 0 when it has none
UpdatedIndex(row) ==
    IF \E i \in 1..Len(updated_records) : updated_records[i][1] = row
    THEN CHOOSE i \in 1..Len(updated_records) :
           /\ updated_records[i][1] = row
           /\ \A j \in 1..(i - 1) : updated_records[j][1] # row
    ELSE 0

RECURSIVE function_call(_)
RECURSIVE CallArguments(_, _)

\* the loop of function_call over the arguments: an argument that is a call
\* is evaluated and replaced by its result read as a number or a string
CallArguments(arguments, i) ==
    IF i > Len(arguments) THEN [kind |-> "Ok", arguments |-> arguments]
    ELSE IF arguments[i].e = "FunctionCall"
    THEN Bind(function_call(arguments[i]), LAMBDA value :
           IF value.kind # "Ok" THEN value
           ELSE CallArguments(
                  [arguments EXCEPT ![i] = parse_string_to_expression(value.value)],
                  i + 1))
    ELSE CallArguments(arguments, i + 1)

\* the end of function_call: the builtin's result, or the unknown function
BuiltinOutcome(fc, builtin) ==
    IF ~builtin.some
    THEN EngineError(<< "Unknown function " >> \o fc.name, fc.line_number)
    ELSE IF builtin.result.kind = "Ok" THEN Ok(builtin.result.value)
    ELSE IF builtin.result.kind = "Err"
    THEN EngineError(<< "Builtin function error: " >>
                     \o builtin.result.message, fc.line_number)
    ELSE builtin.result

\* Engine::function_call
function_call(fc) ==
    Bind(CallArguments(fc.arguments, 1), LAMBDA args :
      IF args.kind # "Ok" THEN args
      ELSE Bind(call_builtin(fc.name, args.arguments), LAMBDA builtin :
             BuiltinOutcome(fc, builtin)))

\* get_record with the row count taken as exclusive: the variant the row
\* check of get_record is told apart from
get_record_exclusive(row) ==
    IF row >= rows
    THEN EngineError(<< "Invalid row number " >> \o NatText(row)
                     \o << ", the rows is " >> \o NatText(rows), row + 1)
    ELSE Ok([i \in 1..Len(Split(lines[row + 1])) |-> Trim(Split(lines[row + 1])[i])])

\* Engine::get_record
get_record(row) ==
    IF row > rows
    THEN EngineError(<< "Invalid row number " >> \o NatText(row)
                     \o << ", the rows is " >> \o NatText(rows), row + 1)
    ELSE IF row + 1 > Len(lines) THEN Panic("unwrap on None")
    ELSE Ok([i \in 1..Len(Split(lines[row + 1])) |-> Trim(Split(lines[row + 1])[i])])

CannotGetColumn(row, len, col, line_number) ==
    EngineError(<< "CSV error: Record " >> \o NatText(row) \o << " has only " >>
                \o NatText(len) \o << " columns, cannot get column " >>
                \o NatText(col), line_number)

RECURSIVE execute_field(_, _, _)
RECURSIVE get_field(_, _, _, _)
RECURSIVE ResolveChildren(_, _, _, _, _)
RECURSIVE ResolveArray(_, _, _, _)

\* the lookup of a Field node: col_number_from_alpha, then get_field
FieldLookup(x, line_number, depth) ==
    get_field(col_number_from_alpha(x.col), x.row, line_number, depth)

\* the inner loop of execute_field over the elements of an Array child
ResolveArray(elements, i, line_number, depth) ==
    IF i > Len(elements) THEN [kind |-> "Ok", elements |-> elements]
    ELSE IF elements[i].e = "FunctionCall"
    THEN Bind(function_call(elements[i]), LAMBDA value :
           IF value.kind # "Ok" THEN value
           ELSE ResolveArray([elements EXCEPT ![i] = StringExpr(value.value)],
                             i + 1, line_number, depth))
    ELSE IF elements[i].e = "Field"
    THEN Bind(FieldLookup(elements[i], line_number, depth), LAMBDA value :
           IF value.kind # "Ok" THEN value
           ELSE ResolveArray(
                  [elements EXCEPT ![i] = parse_string_to_expression(value.value)],
                  i + 1, line_number, depth))
    ELSE ResolveArray(elements, i + 1, line_number, depth)

\* the value one child of ast.mut_children() is replaced by; a failure is
\* returned as it is
ResolveChild(expr, line_number, depth) ==
    IF expr.e = "FunctionCall"
    THEN Bind(function_call(expr), LAMBDA value :
           IF value.kind # "Ok" THEN value
           ELSE [kind |-> "Ok", expr |-> StringExpr(value.value)])
    ELSE IF expr.e = "Array"
    THEN Bind(ResolveArray(expr.elements, 1, line_number, depth), LAMBDA arr :
           IF arr.kind # "Ok" THEN arr
           ELSE [kind |-> "Ok", expr |-> ArrayExpr(arr.elements)])
    ELSE IF expr.e = "Field"
    THEN Bind(FieldLookup(expr, line_number, depth), LAMBDA value :
           IF value.kind # "Ok" THEN value
           ELSE [kind |-> "Ok", expr |-> parse_string_to_expression(value.value)])
    ELSE [kind |-> "Ok", expr |-> expr]

\* the loop of execute_field over ast.mut_children(): each child is replaced
\* in place, and the first failure ends the evaluation
ResolveChildren(arguments, children, k, line_number, depth) ==
    IF k > Len(children) THEN [kind |-> "Ok", arguments |-> arguments]
    ELSE Bind(ResolveChild(NodeAt(arguments, children[k]), line_number, depth),
              LAMBDA child :
                IF child.kind # "Ok" THEN child
                ELSE ResolveChildren(AssignAt(arguments, children[k], child.expr),
                                     children, k + 1, line_number, depth))

RECURSIVE ExecuteFormula(_, _, _)

\* execute_field without the test of the leading '=': the variant the
\* pass-through of plain cells is told apart from
execute_field_as_formula(field, line_number, depth) ==
    ExecuteFormula(field, line_number, depth)

\* Engine::execute_field; depth is the number of execute_field frames the
\* call stack still has room for
execute_field(field, line_number, depth) ==
    IF ~StartsWithEq(field) THEN Ok(field)
    ELSE ExecuteFormula(field, line_number, depth)

\* the branch of execute_field for a field that starts with '='
ExecuteFormula(field, line_number, depth) ==
    IF depth = 0 THEN StackOverflow
    ELSE Bind(tokenize(Trim(TrimStartEq(field)), line_number), LAMBDA tokens :
      IF tokens.kind # "Ok" THEN tokens
      ELSE Bind(parse(tokens.value, line_number), LAMBDA parsed :
        IF parsed.kind # "Ok" THEN parsed
        ELSE Bind(ResolveChildren(parsed.ast.function.arguments,
                                  mut_children(parsed.ast), 1, line_number, depth),
                  LAMBDA resolved :
          IF resolved.kind # "Ok" THEN resolved
          ELSE function_call([parsed.ast.function EXCEPT
                                !.arguments = resolved.arguments]))))

\* get_field on a row that has a pending snapshot
SnapshotField(updated_field, col, row, line_number) ==
    IF Len(updated_field) < col
    THEN CannotGetColumn(row, Len(updated_field), col, line_number)
    ELSE IF col >= Len(updated_field) THEN Panic("index out of bounds")
    ELSE Ok(updated_field[col + 1])

\* Engine::get_field
get_field(col, row, line_number, depth) ==
    IF UpdatedIndex(row) # 0
    THEN SnapshotField(updated_records[UpdatedIndex(row)][2], col, row, line_number)
    ELSE Bind(get_record(row), LAMBDA record :
           IF record.kind # "Ok" THEN record
           ELSE IF Len(record.value) < col
           THEN CannotGetColumn(row, Len(record.value), col, row + 1)
           ELSE IF col >= Len(record.value) THEN Panic("index out of bounds")
           ELSE execute_field(Trim(record.value[col + 1]), row + 1, depth - 1))

\* update_field without the removal of the row's earlier snapshot: the
\* variant the replacement of a snapshot is told apart from
update_field_push_only(col, row, value, line_number) ==
    IF get_record(row).kind # "Ok"
    THEN [result |-> get_record(row), updated_records |-> updated_records]
    ELSE IF Len(get_record(row).value) <= col
    THEN [result |-> EngineError(<< "CSV error: cannot update column" >>,
                                 line_number),
          updated_records |-> updated_records]
    ELSE [result |-> Ok(<<>>),
          updated_records |->
            Append(updated_records,
                   << row, [get_record(row).value EXCEPT ![col + 1] = value] >>)]

\* Engine::update_field: the outcome and the pending snapshots afterwards
update_field(col, row, value, line_number) ==
    LET static_record == get_record(row)
        new_record == [static_record.value EXCEPT ![col + 1] = value]
        old_idx == UpdatedIndex(row)
        removed == [i \in 1..(Len(updated_records) - 1) |->
                      IF i < old_idx THEN updated_records[i]
                      ELSE updated_records[i + 1]]
    IN  IF static_record.kind # "Ok"
        THEN [result |-> static_record, updated_records |-> updated_records]
        ELSE IF Len(static_record.value) <= col
        THEN [result |->
                EngineError(<< "CSV error: Record " >> \o NatText(row)
                            \o << " has only " >> \o NatText(Len(static_record.value))
                            \o << " columns, cannot update column " >>
                            \o NatText(col + 1), line_number),
              updated_records |-> updated_records]
        ELSE IF old_idx # 0
        THEN [result |-> Ok(<<>>),
              updated_records |->
                Append(removed,
                       << row, compare_records(static_record.value,
                                               updated_records[old_idx][2],
                                               new_record) >>)]
        ELSE [result |-> Ok(<<>>),
              updated_records |-> Append(updated_records, << row, new_record >>)]

----------------------------------------------------------------------------
(* The sheets of the model: a header line, then up to MaxRows lines taken  *)
(* from the lines below, whose field references name rows 1 and 2.         *)

\* a,b
HeaderLine ==
    << "a", ",", "b" >>

\* 1,2
LinePlain ==
    << "1", ",", "2" >>

\*  x,=print(A1)
LinePadded ==
    << " ", "x", ",", "=", "p", "r", "i", "n", "t", "(", "A", "1", ")" >>

\* =sum(1;2),=print(C1),=sum(2;2)
LineThree ==
    << "=", "s", "u", "m", "(", "1", ";", "2", ")", ",", "=", "p", "r", "i",
       "n", "t", "(", "C", "1", ")", ",", "=", "s", "u", "m", "(", "2", ";",
       "2", ")" >>

\* =sum(A2;B1),5
LineCross ==
    << "=", "s", "u", "m", "(", "A", "2", ";", "B", "1", ")", ",", "5" >>

\* =print(B1)
LineNextColumn ==
    << "=", "p", "r", "i", "n", "t", "(", "B", "1", ")" >>

\* =print(D1),7
LineFarColumn ==
    << "=", "p", "r", "i", "n", "t", "(", "D", "1", ")", ",", "7" >>

\* =div(4;0),=div(3;2)
LineDivZero ==
    << "=", "d", "i", "v", "(", "4", ";", "0", ")", ",", "=", "d", "i", "v",
       "(", "3", ";", "2", ")" >>

\* =print(A9)
LineFarRow ==
    << "=", "p", "r", "i", "n", "t", "(", "A", "9", ")" >>

\* 8,=foo(1)
LineUnknown ==
    << "8", ",", "=", "f", "o", "o", "(", "1", ")" >>

\* =sum(1)
LineOneArg ==
    << "=", "s", "u", "m", "(", "1", ")" >>

\* =print(A1)
LineSelf ==
    << "=", "p", "r", "i", "n", "t", "(", "A", "1", ")" >>

\* (an empty line)
LineEmpty ==
    <<>>

\* =print([sum(1;2);A2];true;"s")
LineArray ==
    << "=", "p", "r", "i", "n", "t", "(", "[", "s", "u", "m", "(", "1", ";",
       "2", ")", ";", "A", "2", "]", ";", "t", "r", "u", "e", ";", "\"", "s",
       "\"", ")" >>

\* =sum(1;
LineUnclosed ==
    << "=", "s", "u", "m", "(", "1", ";" >>

\* =mul(1..2;3)
LineTwoDots ==
    << "=", "m", "u", "l", "(", "1", ".", ".", "2", ";", "3", ")" >>

\* =sub(-;1)
LineMinus ==
    << "=", "s", "u", "b", "(", "-", ";", "1", ")" >>

\* =print(_1)
LineNoLabel ==
    << "=", "p", "r", "i", "n", "t", "(", "_", "1", ")" >>

LineCatalog ==
    { LinePlain, LinePadded, LineThree, LineCross, LineNextColumn,
      LineFarColumn, LineDivZero, LineFarRow, LineUnknown, LineOneArg,
      LineSelf, LineEmpty, LineArray, LineUnclosed, LineTwoDots, LineMinus,
      LineNoLabel }

RECURSIVE SeqsUpTo(_, _)
SeqsUpTo(S, n) ==
    IF n = 0 THEN { <<>> }
    ELSE SeqsUpTo(S, n - 1)
         \cup { Append(s, x) : s \in { t \in SeqsUpTo(S, n - 1) : Len(t) = n - 1 },
                               x \in S }

Sheets == { << HeaderLine >> \o body : body \in SeqsUpTo(LineCatalog, MaxRows) }

NoResult == [kind |-> "None"]

----------------------------------------------------------------------------
(* Engine::new followed by Engine::run (src/src/engine.rs, main.rs).       *)

\* the rows between two flushes of the writer
FlushEvery == 100

\* Engine::new on a text of at least one line
EngineNew(sheet) ==
    /\ lines = sheet
    /\ rows = Len(sheet) - 1
    /\ updated_records = <<>>

Init ==
    /\ \E sheet \in Sheets : EngineNew(sheet)
    /\ run = [row |-> 0, col |-> 0, state |-> "start"]
    /\ out = <<>>
    /\ call = [op |-> "run"]
    /\ result = NoResult
    /\ history = <<>>

\* a writer that ignores the snapshots: the variant the written records are
\* told apart from
WrittenRecord_static(row) == Split(lines[row + 1])

\* the record run writes for a row: its snapshot, or the fields as split
WrittenRecord(row) ==
    IF UpdatedIndex(row) # 0 THEN updated_records[UpdatedIndex(row)][2]
    ELSE Split(lines[row + 1])

\* how run ends on an outcome that is not Ok: an error is returned, a panic
\* or an exhausted stack aborts the program
EndState(r) == IF r.kind = "Err" THEN "cell_failed" ELSE "aborted"

\* csv::Writer::from_path: the output file is opened, or run returns an error
RunOpen ==
    /\ run.state = "start"
    /\ \/ /\ run' = [run EXCEPT !.state = "running"]
          /\ UNCHANGED result
       \/ /\ run' = [run EXCEPT !.state = "io_failed"]
          /\ result' = EngineError(<< "Write CSV file error" >>, 0)
    /\ UNCHANGED << lines, rows, updated_records, out, call, history >>

\* an empty line written as an empty record: the variant the skipping of
\* empty lines is told apart from
RunSkip_written ==
    /\ run.state = "running"
    /\ run.row < Len(lines)
    /\ lines[run.row + 1] = <<>>
    /\ out' = Append(out, << <<>> >>)
    /\ run' = [run EXCEPT !.row = @ + 1, !.col = 0]
    /\ UNCHANGED << lines, rows, updated_records, call, result, history >>

\* an empty line is skipped
RunSkip ==
    /\ run.state = "running"
    /\ run.row < Len(lines)
    /\ lines[run.row + 1] = <<>>
    /\ run' = [run EXCEPT !.row = @ + 1, !.col = 0]
    /\ UNCHANGED << lines, rows, updated_records, out, call, result, history >>

\* one iteration of the loop over the fields of a line: the field is
\* executed and, when the value differs from the field's text, written to
\* the row's snapshot
RunField ==
    /\ run.state = "running"
    /\ run.row < Len(lines)
    /\ lines[run.row + 1] # <<>>
    /\ run.col < Len(Split(lines[run.row + 1]))
    /\ LET field == Split(lines[run.row + 1])[run.col + 1]
           execution_field == execute_field(Trim(field), run.row + 1, MaxDepth)
           updated == update_field(run.col, run.row, execution_field.value,
                                   run.row + 1)
       IN  IF execution_field.kind # "Ok"
           THEN /\ run' = [run EXCEPT !.state = EndState(execution_field)]
                /\ result' = execution_field
                /\ UNCHANGED updated_records
           ELSE IF execution_field.value = field
           THEN /\ run' = [run EXCEPT !.col = @ + 1]
                /\ UNCHANGED << updated_records, result >>
           ELSE IF updated.result.kind # "Ok"
           THEN /\ run' = [run EXCEPT !.state = EndState(updated.result)]
                /\ result' = updated.result
                /\ UNCHANGED updated_records
           ELSE /\ run' = [run EXCEPT !.col = @ + 1]
                /\ updated_records' = updated.updated_records
                /\ UNCHANGED result
    /\ UNCHANGED << lines, rows, out, call, history >>

\* the end of a line: its record is written, and the writer flushed every
\* FlushEvery rows; either may fail
RunWrite ==
    /\ run.state = "running"
    /\ run.row < Len(lines)
    /\ lines[run.row + 1] # <<>>
    /\ run.col = Len(Split(lines[run.row + 1]))
    /\ \/ /\ out' = Append(out, WrittenRecord(run.row))
          /\ run' = [run EXCEPT !.row = @ + 1, !.col = 0]
          /\ UNCHANGED result
       \/ /\ run' = [run EXCEPT !.state = "io_failed"]
          /\ result' = EngineError(<< "Write CSV record error" >>, run.row + 1)
          /\ UNCHANGED out
       \/ /\ run.row % FlushEvery = 0
          /\ out' = Append(out, WrittenRecord(run.row))
          /\ run' = [run EXCEPT !.state = "io_failed"]
          /\ result' = EngineError(<< "Flush CSV file error" >>, run.row + 1)
    /\ UNCHANGED << lines, rows, updated_records, call, history >>

\* after the last line: the final flush, and run returns
RunFinish ==
    /\ run.state = "running"
    /\ run.row = Len(lines)
    /\ \/ /\ run' = [run EXCEPT !.state = "done"]
          /\ result' = Ok(<<>>)
       \/ /\ run' = [run EXCEPT !.state = "io_failed"]
          /\ result' = EngineError(<< "Flush CSV file error" >>, 0)
    /\ UNCHANGED << lines, rows, updated_records, out, call, history >>

Next == RunOpen \/ RunSkip \/ RunField \/ RunWrite \/ RunFinish

Spec == Init /\ [][Next]_vars

----------------------------------------------------------------------------
(* The engine's operations applied by a client, in any order: get_record,  *)
(* get_field and update_field on a sheet, with rows and columns inside and *)
(* outside of it.                                                          *)

\* =f(A1),=f(B1)
LineFormulas ==
    << "=", "f", "(", "A", "1", ")", ",", "=", "f", "(", "B", "1", ")" >>

\* X
ValueX ==
    << "X" >>

\*  Y 
ValuePadded ==
    << " ", "Y", " " >>

ApiSheets ==
    { << HeaderLine, LineFormulas, LineEmpty >>,
      << HeaderLine, LineThree >> }

ApiValues == { ValueX, ValuePadded }

\* successful updates a client makes
MaxUpdates == 2

\* the rows and the 0-based columns a client names: those of the sheets, and
\* one row and one column beyond them
ApiRows == 0..3
ApiCols == 0..3

\* the cells whose updates the history follows
HistoryCells == (1..2) \X (0..2)

Idle == [row |-> 0, col |-> 0, state |-> "idle"]

\* the successful updates the client has made so far
UpdatesMade ==
    history[<< 1, 0 >>].n + history[<< 1, 1 >>].n + history[<< 1, 2 >>].n
    + history[<< 2, 0 >>].n + history[<< 2, 1 >>].n + history[<< 2, 2 >>].n

ApiInit ==
    /\ \E sheet \in ApiSheets : EngineNew(sheet)
    /\ run = Idle
    /\ out = <<>>
    /\ call = [op |-> "new"]
    /\ result = NoResult
    /\ history = [cell \in HistoryCells |-> [n |-> 0, value |-> <<>>]]

\* a client calls get_record(row)
ApiGetRecord ==
    /\ \E row \in ApiRows :
         /\ call' = [op |-> "get_record", row |-> row]
         /\ result' = get_record(row)
    /\ UNCHANGED << lines, rows, updated_records, run, out, history >>

\* a client calls get_field(col, row, line_number)
ApiGetField ==
    /\ \E col \in ApiCols, row \in ApiRows :
         /\ call' = [op |-> "get_field", col |-> col, row |-> row]
         /\ result' = get_field(col, row, 1, MaxDepth)
    /\ UNCHANGED << lines, rows, updated_records, run, out, history >>

\* a client calls update_field(col, row, value, line_number) on a data row
ApiUpdateField ==
    /\ \E col \in ApiCols, row \in 1..3, value \in ApiValues :
         /\ UpdatesMade < MaxUpdates
         /\ LET updated == update_field(col, row, value, 1)
            IN  /\ call' = [op |-> "update_field", col |-> col, row |-> row,
                            value |-> value]
                /\ result' = updated.result
                /\ updated_records' = updated.updated_records
                /\ history' =
                     IF updated.result.kind = "Ok"
                     THEN [history EXCEPT ![<< row, col >>] =
                             [n |-> @.n + 1, value |-> value]]
                     ELSE history
    /\ UNCHANGED << lines, rows, run, out >>

ApiNext == ApiGetRecord \/ ApiGetField \/ ApiUpdateField

SpecApi == ApiInit /\ [][ApiNext]_vars

----------------------------------------------------------------------------
(* The builtins and function_call applied to calls drawn from a pool of    *)
(* argument lists.                                                         *)

\* arguments of a drawn call
MaxArgs == 3

ArgPool ==
    { NumberExpr(Dec(2, 0)), NumberExpr(Dec(3, 0)), NumberExpr(Dec(0, 0)),
      NumberExpr(Dec(-15, 1)), StringExpr(ValueX), BooleanExpr(TRUE),
      ArrayExpr(<< NumberExpr(Dec(1, 0)) >>), FieldExpr(<< "A" >>, 1),
      FunctionCallExpression(SumName, << NumberExpr(Dec(1, 0)),
                                         NumberExpr(Dec(2, 0)) >>, 1) }

FooName == << "f", "o", "o" >>

CallNames == { PrintName, SumName, SubName, MulName, DivName, FooName }

CallInit ==
    /\ lines = << HeaderLine >>
    /\ rows = 0
    /\ updated_records = <<>>
    /\ run = Idle
    /\ out = <<>>
    /\ \E name \in CallNames, args \in SeqsUpTo(ArgPool, MaxArgs) :
         call = [op |-> "drawn", name |-> name, args |-> args]
    /\ result = NoResult
    /\ history = <<>>

\* the builtin of the drawn name is applied to the drawn arguments
ApplyBuiltin ==
    /\ call.op = "drawn"
    /\ call.name # FooName
    /\ call' = [call EXCEPT !.op = "builtin"]
    /\ result' = call_builtin(call.name, call.args).result
    /\ UNCHANGED << lines, rows, updated_records, run, out, history >>

\* function_call is applied to the drawn call, on line 1
ApplyFunctionCall ==
    /\ call.op = "drawn"
    /\ call' = [call EXCEPT !.op = "function_call"]
    /\ result' = function_call(FunctionCallExpression(call.name, call.args, 1))
    /\ UNCHANGED << lines, rows, updated_records, run, out, history >>

CallNext == ApplyBuiltin \/ ApplyFunctionCall

SpecCalls == CallInit /\ [][CallNext]_vars

----------------------------------------------------------------------------
(* col_number_from_alpha applied to the labels of up to MaxLabelLen        *)
(* letters.                                                                *)

Letters == Range(UpperLetters) \cup Range(LowerLetters)

Labels == SeqsUpTo(Letters, MaxLabelLen) \ { <<>> }

AlphaInit ==
    /\ lines = << HeaderLine >>
    /\ rows = 0
    /\ updated_records = <<>>
    /\ run = Idle
    /\ out = <<>>
    /\ \E alpha \in Labels : call = [op |-> "drawn", alpha |-> alpha]
    /\ result = NoResult
    /\ history = <<>>

\* col_number_from_alpha is applied to the drawn label
ApplyAlpha ==
    /\ call.op = "drawn"
    /\ call' = [call EXCEPT !.op = "col_number_from_alpha"]
    /\ result' = Ok(col_number_from_alpha(call.alpha))
    /\ UNCHANGED << lines, rows, updated_records, run, out, history >>

AlphaNext == ApplyAlpha

SpecAlpha == AlphaInit /\ [][AlphaNext]_vars

----------------------------------------------------------------------------
(* Properties of update_field, get_field and get_record. *)

\* the pending snapshot of a row that has one
SnapshotOf(row) == updated_records[UpdatedIndex(row)][2]

\* the columns of a row the history follows
HistoryCols(row) == { c \in 0..2 : << row, c >> \in DOMAIN history }

\* C1: after successful update_field calls on a row that each targeted a
\* different column, the row's pending snapshot holds the written value (up
\* to surrounding whitespace) in every updated column and the trimmed static
\* text in every other column: no update erases or reverts another's value.
C1_UpdatesAccumulate ==
    \A row \in 1..rows :
      (/\ UpdatedIndex(row) # 0
       /\ \A c \in HistoryCols(row) : history[<< row, c >>].n <= 1)
      => /\ Len(SnapshotOf(row)) = Len(Split(lines[row + 1]))
         /\ \A c \in 0..(Len(Split(lines[row + 1])) - 1) :
              IF history[<< row, c >>].n = 1
              THEN Trim(SnapshotOf(row)[c + 1]) = Trim(history[<< row, c >>].value)
              ELSE SnapshotOf(row)[c + 1] = Trim(Split(lines[row + 1])[c + 1])

\* C1's case: the row =f(A1),=f(B1) after column 0 was given X and then
\* column 1 was given " Y "
C1_BothColumnsUpdated ==
    /\ lines = << HeaderLine, LineFormulas, LineEmpty >>
    /\ call = [op |-> "update_field", col |-> 1, row |-> 1, value |-> ValuePadded]
    /\ history[<< 1, 0 >>] = [n |-> 1, value |-> ValueX]
    /\ history[<< 1, 1 >>] = [n |-> 1, value |-> ValuePadded]
    /\ updated_records = << << 1, << ValueX, << "Y" >> >> >> >>

\* the record get_field reads for a row: its pending snapshot, or its fields
RecordRead(row) ==
    IF UpdatedIndex(row) # 0 THEN SnapshotOf(row) ELSE Split(lines[row + 1])

\* C3: get_field with a column that is not an index of the row's record
\* (col >= the record's number of columns), the record being the pending
\* snapshot or the static one, returns an Engine error naming the record and
\* its column count; it never reads outside the record and never aborts.
C3_ColumnOutOfRecord ==
    (/\ call.op = "get_field"
     /\ call.row <= rows
     /\ call.col >= Len(RecordRead(call.row)))
    => /\ result.kind = "Err"
       /\ result.err.kind = "Engine"
       /\ result.err.message =
            << "CSV error: Record " >> \o NatText(call.row) \o << " has only " >>
            \o NatText(Len(RecordRead(call.row)))
            \o << " columns, cannot get column " >> \o NatText(call.col)

\* the state C3 fails in: the column just after the last one of a static
\* record is read, and the program aborts
C3_ReadAfterLastColumn ==
    /\ call.op = "get_field"
    /\ call.row <= rows
    /\ UpdatedIndex(call.row) = 0
    /\ call.col = Len(Split(lines[call.row + 1]))
    /\ result = Panic("index out of bounds")

\* text is raw without the whitespace around it
IsTrimOf(text, raw) ==
    /\ text = <<>> \/ (~IsWhitespace(text[1]) /\ ~IsWhitespace(text[Len(text)]))
    /\ \E a \in 0..Len(raw) : \E b \in 0..(Len(raw) - a) :
         /\ \A k \in 1..a : IsWhitespace(raw[k])
         /\ \A k \in (Len(raw) - b + 1)..Len(raw) : IsWhitespace(raw[k])
         /\ text = SubSeq(raw, a + 1, Len(raw) - b)

\* the index of the k-th comma of a line: 0 before the first, and the index
\* after the line's end beyond the last
NthComma(line, k) ==
    LET commas == { i \in 1..Len(line) : line[i] = "," }
    IN  IF k = 0 THEN 0
        ELSE IF k > Cardinality(commas) THEN Len(line) + 1
        ELSE CHOOSE i \in commas : Cardinality({ j \in commas : j < i }) = k - 1

\* C4: on a sheet with its header line, get_record(row) is an Engine error
\* exactly when row is greater than the number of lines minus 1, and for
\* every other row it is the fields of line `row`, split on ',' and trimmed.
C4_GetRecord ==
    call.op = "get_record"
    => IF call.row > Len(lines) - 1
       THEN result.kind = "Err" /\ result.err.kind = "Engine"
       ELSE /\ result.kind = "Ok"
            /\ NthComma(lines[call.row + 1], Len(result.value)) =
                 Len(lines[call.row + 1]) + 1
            /\ \A k \in 1..Len(result.value) :
                 /\ k < Len(result.value)
                    => NthComma(lines[call.row + 1], k) <= Len(lines[call.row + 1])
                 /\ IsTrimOf(result.value[k],
                             SubSeq(lines[call.row + 1],
                                    NthComma(lines[call.row + 1], k - 1) + 1,
                                    NthComma(lines[call.row + 1], k) - 1))

\* C4's case: the record of the last row of a sheet is asked for and returned
C4_LastRowReturned ==
    /\ call.op = "get_record"
    /\ call.row = Len(lines) - 1
    /\ call.row > 0
    /\ result.kind = "Ok"
    /\ Len(result.value) > 1

----------------------------------------------------------------------------
(* Properties of run. *)

\* the text of the cell run is about to execute, trimmed; <<>> when there is
\* none
CurrentCell ==
    IF /\ run.state = "running"
       /\ run.row < Len(lines)
       /\ run.col < Len(Split(lines[run.row + 1]))
    THEN Trim(Split(lines[run.row + 1])[run.col + 1])
    ELSE <<>>

\* the Field leaves of the formula run is about to execute: the references
\* its evaluation looks up with get_field
CurrentLookups ==
    IF ~StartsWithEq(CurrentCell) THEN {}
    ELSE Bind(tokenize(Trim(TrimStartEq(CurrentCell)), run.row + 1), LAMBDA tokens :
           IF tokens.kind # "Ok" THEN {}
           ELSE Bind(parse(tokens.value, run.row + 1), LAMBDA parsed :
                  IF parsed.kind # "Ok" THEN {}
                  ELSE { x \in { NodeAt(parsed.ast.function.arguments, path) :
                                   path \in Range(mut_children(parsed.ast)) } :
                           x.e = "Field" }))

\* the static text of the cell a Field names, trimmed; <<>> when the sheet
\* has no such cell
StaticText(x) ==
    IF /\ x.row <= rows
       /\ col_number_from_alpha(x.col) < Len(Split(lines[x.row + 1]))
    THEN Trim(Split(lines[x.row + 1])[col_number_from_alpha(x.col) + 1])
    ELSE <<>>

\* C2: whenever get_field succeeds during a run, the text it returns is the
\* computed value of the referenced cell: for a cell whose static text is a
\* formula it is the value of the formula and never the formula's text, also
\* when the row has a pending snapshot in which the column is not updated.
C2_FieldValueIsComputed ==
    \A x \in CurrentLookups :
      (/\ FieldLookup(x, run.row + 1, MaxDepth).kind = "Ok"
       /\ StartsWithEq(StaticText(x)))
      => /\ FieldLookup(x, run.row + 1, MaxDepth).value # StaticText(x)
         /\ ExecuteFormula(StaticText(x), x.row + 1, MaxDepth).kind = "Ok"
         /\ FieldLookup(x, run.row + 1, MaxDepth).value =
              ExecuteFormula(StaticText(x), x.row + 1, MaxDepth).value

\* the state C2 fails in: run is about to execute =print(C1) on a row whose
\* snapshot holds column A's value and, in column C, the formula's text
C2_SnapshotHoldsFormula ==
    /\ lines = << HeaderLine, LineThree >>
    /\ run = [row |-> 1, col |-> 1, state |-> "running"]
    /\ UpdatedIndex(1) # 0
    /\ FieldLookup(FieldExpr(<< "C" >>, 1), 2, MaxDepth)
         = Ok(<< "=", "s", "u", "m", "(", "2", ";", "2", ")" >>)

\* the row of the k-th line that is not empty
NonEmptyRow(k) ==
    CHOOSE r \in 0..(Len(lines) - 1) :
      /\ lines[r + 1] # <<>>
      /\ Cardinality({ q \in 0..(r - 1) : lines[q + 1] # <<>> }) = k - 1

\* the rows before row `row` whose line is not empty
NonEmptyBefore(row) == { r \in 0..(row - 1) : lines[r + 1] # <<>> }

\* what the claims say run writes for a row: the row's pending snapshot when
\* it has one, the line as split otherwise
RowRecord(row) ==
    IF \E i \in 1..Len(updated_records) : updated_records[i][1] = row
    THEN updated_records[CHOOSE i \in 1..Len(updated_records) :
                           updated_records[i][1] = row][2]
    ELSE Split(lines[row + 1])

\* C5: for a cell whose trimmed text does not start with '=', execute_field
\* returns the text as it is, without tokenizing it or looking up a cell
\* (also with no room left for a nested evaluation), and the record run
\* writes for the row holds exactly the trimmed text in the cell's column,
\* whatever updates the row's other columns received.
C5_PlainCellPassesThrough ==
    /\ \A r \in 0..(Len(lines) - 1) : \A c \in 1..Len(Split(lines[r + 1])) :
         ~StartsWithEq(Trim(Split(lines[r + 1])[c]))
         => /\ execute_field(Trim(Split(lines[r + 1])[c]), r + 1, MaxDepth)
                 = [kind |-> "Ok", value |-> Trim(Split(lines[r + 1])[c])]
            /\ execute_field(Trim(Split(lines[r + 1])[c]), r + 1, 0)
                 = [kind |-> "Ok", value |-> Trim(Split(lines[r + 1])[c])]
    /\ \A k \in 1..Len(out) : \A c \in 1..Len(Split(lines[NonEmptyRow(k) + 1])) :
         ~StartsWithEq(Trim(Split(lines[NonEmptyRow(k) + 1])[c]))
         => /\ c <= Len(out[k])
            /\ out[k][c] = Trim(Split(lines[NonEmptyRow(k) + 1])[c])

\* C5's case: the line " x,=print(A1)" is written with x in column A after
\* column B was updated
C5_PaddedCellWritten ==
    /\ Len(lines) = 3
    /\ lines[2] = LinePadded
    /\ run.state = "running"
    /\ run.row = 2
    /\ UpdatedIndex(1) # 0
    /\ out = << << << "a" >>, << "b" >> >>, << << "x" >>, << "x" >> >> >>

\* C6: once evaluating a cell fails, run returns that error and stops: no
\* record is written for the failing row or a later one, and the records
\* written are those of the earlier non-empty rows, in input order.
C6_FailureStopsRun ==
    run.state \in {"cell_failed", "aborted"}
    => /\ run.row < Len(lines)
       /\ run.col < Len(Split(lines[run.row + 1]))
       /\ result = execute_field(Trim(Split(lines[run.row + 1])[run.col + 1]),
                                 run.row + 1, MaxDepth)
       /\ run.state = "cell_failed" <=> result.kind = "Err"
       /\ Len(out) = Cardinality(NonEmptyBefore(run.row))
       /\ \A k \in 1..Len(out) :
            NonEmptyRow(k) < run.row /\ out[k] = RowRecord(NonEmptyRow(k))
       /\ ~ENABLED Next

\* C6's case: the second data line fails after the header and a line with a
\* snapshot were written
C6_FailedAfterTwoRecords ==
    /\ run = [row |-> 2, col |-> 0, state |-> "cell_failed"]
    /\ lines = << HeaderLine, LinePadded, LineOneArg >>
    /\ result.kind = "Err"
    /\ out = << << << "a" >>, << "b" >> >>, << << "x" >>, << "x" >> >> >>

\* C7: when run completes without error it has written one record for every
\* line that is not empty and none for an empty line, in input order, and
\* the record of a row is its pending snapshot when it has one and the line
\* as split otherwise.
C7_CompleteOutput ==
    run.state = "done"
    => /\ result = [kind |-> "Ok", value |-> <<>>]
       /\ Len(out) = Cardinality(NonEmptyBefore(Len(lines)))
       /\ \A k \in 1..Len(out) : out[k] = RowRecord(NonEmptyRow(k))

\* C7's case: a run over a header without snapshot, an empty line and a line
\* with a snapshot completes with two records
C7_DoneWithSkippedLine ==
    /\ run.state = "done"
    /\ lines = << HeaderLine, LineEmpty, LinePadded >>
    /\ UpdatedIndex(0) = 0
    /\ UpdatedIndex(2) # 0
    /\ out = << << << "a" >>, << "b" >> >>, << << "x" >>, <<>> >> >>

----------------------------------------------------------------------------
(* Properties of the builtins, function_call and col_number_from_alpha. *)

ArithmeticNames == { SumName, SubName, MulName, DivName }

\* C8: sum, sub, mul and div return a successful text (a+b, a-b, a*b, a/b)
\* exactly when called with exactly two arguments that are both Number, and
\* a failure for every other argument count and whenever an argument is not
\* a Number; sum of Number(2) and Number(3) is "5".
C8_ArithmeticBuiltins ==
    (call.op = "builtin" /\ call.name \in ArithmeticNames)
    => IF /\ Len(call.args) = 2
          /\ call.args[1].e = "Number"
          /\ call.args[2].e = "Number"
       THEN /\ result.kind = "Ok"
            /\ call.name = SumName
               => DecimalFromStr(result.value).n.int
                    * Pow10(Max(call.args[1].n.scale, call.args[2].n.scale)
                            - DecimalFromStr(result.value).n.scale)
                  = call.args[1].n.int
                      * Pow10(Max(call.args[1].n.scale, call.args[2].n.scale)
                              - call.args[1].n.scale)
                    + call.args[2].n.int
                        * Pow10(Max(call.args[1].n.scale, call.args[2].n.scale)
                                - call.args[2].n.scale)
            /\ call.args = << NumberExpr(Dec(2, 0)), NumberExpr(Dec(3, 0)) >>
               => /\ call.name = SumName => result.value = << "5" >>
                  /\ call.name = SubName => result.value = << "-", "1" >>
                  /\ call.name = MulName => result.value = << "6" >>
       ELSE result.kind = "Err"

\* the state C8 fails in: div called with two Numbers, the second one zero
C8_DivisionByZero ==
    /\ call.op = "builtin"
    /\ call.name = DivName
    /\ call.args = << NumberExpr(Dec(2, 0)), NumberExpr(Dec(0, 0)) >>
    /\ result = Panic("Division by zero")

\* C9: function_call returns an Engine error carrying the call's line number
\* when the name is not one of print, sum, sub, mul, div, an Engine error
\* wrapping the builtin's message when the builtin fails, and the builtin's
\* text otherwise; it has no other outcome once the nested calls succeeded.
C9_FunctionCallOutcomes ==
    call.op = "function_call"
    => IF call.name \notin { PrintName, SumName, SubName, MulName, DivName }
       THEN result = [kind |-> "Err",
                      err |-> [kind |-> "Engine",
                               message |-> << "Unknown function " >> \o call.name,
                               line_number |-> 1]]
       ELSE \/ /\ result.kind = "Err"
               /\ result.err.kind = "Engine"
               /\ result.err.line_number = 1
               /\ Head(result.err.message) = "Builtin function error: "
            \/ /\ result.kind = "Ok"
               /\ call.name \in ArithmeticNames => DecimalFromStr(result.value).ok

\* the state C9 fails in: function_call on div(3; 0) has no outcome
C9_CallOfDivisionByZero ==
    /\ call.op = "function_call"
    /\ call.name = DivName
    /\ call.args = << NumberExpr(Dec(3, 0)), NumberExpr(Dec(0, 0)) >>
    /\ result.kind = "Panic"

\* the value of a letter A..Z as a digit of the bijective base 26
LetterValue(c) == CHOOSE v \in 1..26 : UpperLetters[v] = c

\* the bijective base-26 value of a label: A=1, ..., Z=26, AA=27, ...
RECURSIVE Bijective26(_)
Bijective26(label) ==
    IF label = <<>> THEN 0
    ELSE 26 * Bijective26(SubSeq(label, 1, Len(label) - 1))
         + LetterValue(label[Len(label)])

\* the label whose bijective base-26 value is n
RECURSIVE LabelOf(_)
LabelOf(n) ==
    IF n = 0 THEN <<>>
    ELSE Append(LabelOf((n - 1) \div 26), UpperLetters[((n - 1) % 26) + 1])

----------------------------------------------------------------------------
(* parse_field applied to the identifiers the tokenizer can produce: a      *)
(* letter or '_', then letters, digits and '_'.                             *)

\* characters of a drawn identifier
MaxIdentLen == 3

IdentChars == { "a", "B", "0", "1", "_" }

\* a18446744073709551616: column a and the row number u64::MAX + 1
LongRowIdent ==
    << "a", "1", "8", "4", "4", "6", "7", "4", "4", "0", "7", "3", "7", "0",
       "9", "5", "5", "1", "6", "1", "6" >>

Identifiers ==
    { s \in SeqsUpTo(IdentChars, MaxIdentLen) : s # <<>> /\ ~IsDigit(s[1]) }
    \cup { LongRowIdent }

FieldInit ==
    /\ lines = << HeaderLine >>
    /\ rows = 0
    /\ updated_records = <<>>
    /\ run = Idle
    /\ out = <<>>
    /\ \E identifier \in Identifiers, line_number \in 1..2 :
         call = [op |-> "drawn", identifier |-> identifier,
                 line_number |-> line_number]
    /\ result = NoResult
    /\ history = <<>>

\* parse_field is applied to the drawn identifier as the next token
ApplyParseField ==
    /\ call.op = "drawn"
    /\ call' = [call EXCEPT !.op = "parse_field"]
    /\ result' = parse_field(<< Identifier(call.identifier) >>, 1,
                             call.line_number)
    /\ UNCHANGED << lines, rows, updated_records, run, out, history >>

FieldNext == ApplyParseField

SpecField == FieldInit /\ [][FieldNext]_vars

----------------------------------------------------------------------------
(* Properties of the parser and the tokenizer. *)

\* the identifier's leading letters and what follows them
LeadingLetters(s) ==
    CHOOSE k \in 0..Len(s) :
      /\ \A j \in 1..k : IsAsciiAlphabetic(s[j])
      /\ k < Len(s) => ~IsAsciiAlphabetic(s[k + 1])

AfterLetters(s) == SubSeq(s, LeadingLetters(s) + 1, Len(s))

\* a text that spells a decimal integer of at least 1
IsPositiveDecimal(s) ==
    /\ s # <<>>
    /\ \A i \in 1..Len(s) : s[i] \in Range(DigitChars)
    /\ \E i \in 1..Len(s) : s[i] # "0"

\* what parse_field returned is the Field of the identifier's letters and of
\* the row its digits spell
IsFieldOf(r, s) ==
    /\ r.kind = "Ok"
    /\ r.expr.e = "Field"
    /\ r.expr.col = SubSeq(s, 1, LeadingLetters(s))
    /\ r.expr.row >= 1
    /\ NatText(r.expr.row) = StripZeros(AfterLetters(s))
    /\ r.expr.value = <<>>

\* what parse_field returned is a Parse error of the cell's line
IsParseErrorOf(r, line_number) ==
    /\ r.kind = "Err"
    /\ r.err.kind = "Parse"
    /\ r.err.line_number = line_number

\* C11 as stated: parse_field yields Field{col = the leading letters, row =
\* n} exactly when the rest of the identifier is a decimal integer n >= 1,
\* and a Parse error carrying the line number otherwise.
C11_FieldOfAnyRow ==
    call.op = "parse_field"
    => IF IsPositiveDecimal(AfterLetters(call.identifier))
       THEN IsFieldOf(result, call.identifier)
       ELSE IsParseErrorOf(result, call.line_number)

\* C11: parse_field yields Field{col = the leading letters, row = n} exactly
\* when the rest of the identifier is a decimal integer n with
\* 1 <= n <= u64::MAX; when the rest is empty, is not a number, equals 0 or
\* is above u64::MAX, it returns a Parse error carrying the line number.
C11_FieldOfRow ==
    call.op = "parse_field"
    => IF /\ IsPositiveDecimal(AfterLetters(call.identifier))
          /\ \/ Len(StripZeros(AfterLetters(call.identifier))) < 20
             \/ /\ Len(StripZeros(AfterLetters(call.identifier))) = 20
                /\ DigitsLeq(StripZeros(AfterLetters(call.identifier)), U64MaxText)
       THEN IsFieldOf(result, call.identifier)
       ELSE IsParseErrorOf(result, call.line_number)

\* C11's cases: a0 was rejected on line 2
C11_RowZeroRejected ==
    /\ call.op = "parse_field"
    /\ call.identifier = << "a", "0" >>
    /\ call.line_number = 2
    /\ result.kind = "Err"

----------------------------------------------------------------------------
(* The tokenizer and the parser applied to the formula texts of up to      *)
(* MaxFormulaLen characters.                                               *)

\* characters of a drawn formula text
MaxFormulaLen == 4

FormulaChars == { "f", "(", ")", "[", "]", ";", "1", "-", "." }

FormulaInit ==
    /\ lines = << HeaderLine >>
    /\ rows = 0
    /\ updated_records = <<>>
    /\ run = Idle
    /\ out = <<>>
    /\ \E field \in SeqsUpTo(FormulaChars, MaxFormulaLen) :
         call = [op |-> "drawn", field |-> field]
    /\ result = NoResult
    /\ history = <<>>

\* tokenize is applied to the drawn text, on line 1
ApplyTokenize ==
    /\ call.op = "drawn"
    /\ call' = [call EXCEPT !.op = "tokenize"]
    /\ result' = tokenize(call.field, 1)
    /\ UNCHANGED << lines, rows, updated_records, run, out, history >>

\* Parser::parse is applied to the tokens of the text tokenize returned
ApplyParse ==
    /\ call.op = "tokenize"
    /\ result.kind = "Ok"
    /\ call' = [op |-> "parse", field |-> call.field, tokens |-> result.value]
    /\ result' = parse(result.value, 1)
    /\ UNCHANGED << lines, rows, updated_records, run, out, history >>

\* read_number is applied to a drawn text whose next character is a digit
\* or '-', as tokenize applies it
ApplyReadNumber ==
    /\ call.op = "drawn"
    /\ call.field # <<>>
    /\ IsDigit(call.field[1]) \/ call.field[1] = "-"
    /\ call' = [call EXCEPT !.op = "read_number"]
    /\ result' = read_number(call.field, 1, 1)
    /\ UNCHANGED << lines, rows, updated_records, run, out, history >>

FormulaNext == ApplyTokenize \/ ApplyParse \/ ApplyReadNumber

SpecFormula == FormulaInit /\ [][FormulaNext]_vars

\* the parentheses opened and not closed in the first j tokens
OpenAfter(tokens, j) ==
    Cardinality({ i \in 1..j : tokens[i].t = "LeftParenthesis" })
    - Cardinality({ i \in 1..j : tokens[i].t = "RightParenthesis" })

\* the token sequence is one function call: an identifier, a parenthesis,
\* and the parenthesis that closes it as the last token
IsOneCall(tokens) ==
    /\ Len(tokens) >= 3
    /\ tokens[1].t = "Identifier"
    /\ tokens[2].t = "LeftParenthesis"
    /\ OpenAfter(tokens, Len(tokens)) = 0
    /\ \A j \in 2..(Len(tokens) - 1) : OpenAfter(tokens, j) > 0

\* C12: Parser.parse succeeds only when the whole token sequence is exactly
\* one function call, with no token left after the closing parenthesis of
\* the root call; a token sequence with further tokens after the root call,
\* or that does not start with a function call, is rejected with a Parse
\* error.
C12_WholeSequenceIsOneCall ==
    call.op = "parse"
    => IF IsOneCall(call.tokens)
       THEN result.kind \in {"Ok", "Err"}
       ELSE result.kind = "Err" /\ result.err.kind = "Parse"

\* the state C12 fails in: the tokens of f()1 are parsed to the call f()
C12_TrailingTokenAccepted ==
    /\ call.op = "parse"
    /\ call.field = << "f", "(", ")", "1" >>
    /\ result = [kind |-> "Ok",
                 ast |-> [function |-> FunctionCallExpression(<< "f" >>, <<>>, 1)]]

----------------------------------------------------------------------------
(* compare_records applied to three records of the same length.            *)

\* columns of a drawn record
MaxRecordLen == 2

\* =a()
FieldFormula ==
    << "=", "a", "(", ")" >>

\* V1
FieldV1 ==
    << "V", "1" >>

\*  V1
FieldV1Padded ==
    << " ", "V", "1" >>

\* W
FieldW ==
    << "W" >>

RecordFields == { FieldFormula, FieldV1, FieldV1Padded, FieldW }

RecordsOf(n) == { r \in SeqsUpTo(RecordFields, n) : Len(r) = n }

CompareInit ==
    /\ lines = << HeaderLine >>
    /\ rows = 0
    /\ updated_records = <<>>
    /\ run = Idle
    /\ out = <<>>
    /\ \E n \in 1..MaxRecordLen :
         \E static_record \in RecordsOf(n), old_record \in RecordsOf(n),
            new_record \in RecordsOf(n) :
           call = [op |-> "drawn", static_record |-> static_record,
                   old_record |-> old_record, new_record |-> new_record]
    /\ result = NoResult
    /\ history = <<>>

\* compare_records is applied to the drawn records
ApplyCompareRecords ==
    /\ call.op = "drawn"
    /\ call' = [call EXCEPT !.op = "compare_records"]
    /\ result' = Ok(compare_records(call.static_record, call.old_record,
                                    call.new_record))
    /\ UNCHANGED << lines, rows, updated_records, run, out, history >>

CompareNext == ApplyCompareRecords

SpecCompare == CompareInit /\ [][CompareNext]_vars

----------------------------------------------------------------------------
(* Properties of compare_records. *)

\* C13: compare_records(S, O, N) on three records of equal length returns M
\* with, for every column i and comparing trimmed values, M[i] = O[i] when
\* N[i] = S[i] and N[i] # O[i], and M[i] = N[i] in every other case: a
\* candidate that differs from the static field is kept, and the pending
\* values are kept where the candidate equals the static record.
C13_Reconciliation ==
    call.op = "compare_records"
    => /\ Len(result.value) = Len(call.static_record)
       /\ \A i \in 1..Len(call.static_record) :
            IF /\ Trim(call.new_record[i]) = Trim(call.static_record[i])
               /\ Trim(call.new_record[i]) # Trim(call.old_record[i])
            THEN Trim(result.value[i]) = Trim(call.old_record[i])
            ELSE Trim(result.value[i]) = Trim(call.new_record[i])

\* the state C13 fails in: with static =a(), pending V1 and candidate W, the
\* pending V1 is returned and the candidate is lost
C13_CandidateLost ==
    /\ call = [op |-> "compare_records", static_record |-> << FieldFormula >>,
               old_record |-> << FieldV1 >>, new_record |-> << FieldW >>]
    /\ result = Ok(<< FieldV1 >>)

----------------------------------------------------------------------------
(* Properties of execute_field. *)

\* an expression that is, or holds at any depth, a FunctionCall node
RECURSIVE HasCall(_)
HasCall(x) ==
    \/ x.e = "FunctionCall"
    \/ \E i \in 1..Len(Children(x)) : HasCall(Children(x)[i])

\* the argument list the builtin of a formula's root call receives: the
\* arguments after the loop of execute_field over the leaves and the loop
\* of function_call over the arguments; a failure on the way is returned
DispatchedArguments(field, line_number, depth) ==
    Bind(tokenize(Trim(TrimStartEq(field)), line_number), LAMBDA tokens :
      IF tokens.kind # "Ok" THEN tokens
      ELSE Bind(parse(tokens.value, line_number), LAMBDA parsed :
        IF parsed.kind # "Ok" THEN parsed
        ELSE Bind(ResolveChildren(parsed.ast.function.arguments,
                                  mut_children(parsed.ast), 1, line_number, depth),
                  LAMBDA resolved :
          IF resolved.kind # "Ok" THEN resolved
          ELSE CallArguments(resolved.arguments, 1))))

\* C14: when an argument of the formula run is about to execute is an array
\* that holds a function call, the call is evaluated and replaced by its
\* textual result before the enclosing builtin is dispatched: no
\* unevaluated FunctionCall node is part of the argument list the builtin
\* receives.
C14_NoCallReachesBuiltin ==
    (/\ StartsWithEq(CurrentCell)
     /\ DispatchedArguments(CurrentCell, run.row + 1, MaxDepth).kind = "Ok")
    => \A i \in 1..Len(DispatchedArguments(CurrentCell, run.row + 1,
                                           MaxDepth).arguments) :
         ~HasCall(DispatchedArguments(CurrentCell, run.row + 1,
                                      MaxDepth).arguments[i])

\* the state C14 fails in: run is about to execute
\* =print([sum(1;2);A2];true;"s") with 1 in A2, and print receives the array
\* with the call sum(1;2) in it and prints the call
C14_CallPrinted ==
    /\ lines = << HeaderLine, LineArray, LinePlain >>
    /\ run = [row |-> 1, col |-> 0, state |-> "running"]
    /\ DispatchedArguments(CurrentCell, 2, MaxDepth).arguments[1]
         = ArrayExpr(<< FunctionCallExpression(SumName,
                            << NumberExpr(Dec(1, 0)), NumberExpr(Dec(2, 0)) >>, 2),
                        NumberExpr(Dec(1, 0)) >>)
    /\ execute_field(CurrentCell, 2, MaxDepth)
         = Ok(<< "[", "b", "u", "i", "l", "t", "i", "n", " ", "f", "u", "n",
                 "c", "t", "i", "o", "n", ":", " ", "s", "u", "m", "(", "1",
                 ",", " ", "2", ")", ",", " ", "1", "]", ",", " ", "t", "r",
                 "u", "e", ",", " ", "s" >>)

----------------------------------------------------------------------------
(* Engine::run on sheets whose formulas refer to one another: cells that   *)
(* name themselves, each other, rows that do not exist and functions that  *)
(* do not exist.                                                           *)

\* =print(A2)
LineToSecond ==
    << "=", "p", "r", "i", "n", "t", "(", "A", "2", ")" >>

\*  x,=print(B1)
LineLateSelf ==
    << " ", "x", ",", "=", "p", "r", "i", "n", "t", "(", "B", "1", ")" >>

\* =print(A9;A1)
LineFarThenSelf ==
    << "=", "p", "r", "i", "n", "t", "(", "A", "9", ";", "A", "1", ")" >>

\* =print(A9;A8)
LineTwoFar ==
    << "=", "p", "r", "i", "n", "t", "(", "A", "9", ";", "A", "8", ")" >>

\* =foo(A9)
LineUnknownFar ==
    << "=", "f", "o", "o", "(", "A", "9", ")" >>

\* =sum(foo(1);A9)
LineCallThenFar ==
    << "=", "s", "u", "m", "(", "f", "o", "o", "(", "1", ")", ";", "A", "9",
       ")" >>

\* =print(foo(1);bar(2))
LineTwoUnknown ==
    << "=", "p", "r", "i", "n", "t", "(", "f", "o", "o", "(", "1", ")", ";",
       "b", "a", "r", "(", "2", ")", ")" >>

\* =sum(sum(1;A2);mul(2;3))
LineNested ==
    << "=", "s", "u", "m", "(", "s", "u", "m", "(", "1", ";", "A", "2", ")",
       ";", "m", "u", "l", "(", "2", ";", "3", ")", ")" >>

CellLineCatalog ==
    { LineSelf, LineToSecond, LineLateSelf, LineFarThenSelf, LineTwoFar,
      LineUnknownFar, LineCallThenFar, LineTwoUnknown, LineNested, LinePlain,
      LineEmpty }

CellSheets ==
    { << HeaderLine >> \o body : body \in SeqsUpTo(CellLineCatalog, MaxRows) }

CellsInit ==
    /\ \E sheet \in CellSheets : EngineNew(sheet)
    /\ run = [row |-> 0, col |-> 0, state |-> "start"]
    /\ out = <<>>
    /\ call = [op |-> "run"]
    /\ result = NoResult
    /\ history = <<>>

SpecCells == CellsInit /\ [][Next]_vars

----------------------------------------------------------------------------
(* Properties of the references between cells. *)

\* the cells of the sheet, as pairs of a row and a 0-based column
Cells ==
    { rc \in (0..rows) \X (0..2) : rc[2] < Len(Split(lines[rc[1] + 1])) }

CellText(rc) == Trim(Split(lines[rc[1] + 1])[rc[2] + 1])

\* the tokens of a formula that tokenizes and parses, <<>> for any other text
WellFormedTokens(text) ==
    IF ~StartsWithEq(text) THEN <<>>
    ELSE Bind(tokenize(Trim(TrimStartEq(text)), 1), LAMBDA tokens :
           IF tokens.kind # "Ok" THEN <<>>
           ELSE IF parse(tokens.value, 1).kind # "Ok" THEN <<>>
           ELSE tokens.value)

\* the positions of the tokens that are field references: the identifiers
\* that are not followed by a parenthesis and are not true or false
RefPositions(tokens) ==
    { i \in 1..Len(tokens) :
        /\ tokens[i].t = "Identifier"
        /\ ~(i < Len(tokens) /\ tokens[i + 1].t = "LeftParenthesis")
        /\ tokens[i].s \notin { TrueText, FalseText } }

\* the Field an identifier names: its leading letters, and the row its
\* digits spell
FieldNamed(s) ==
    FieldExpr(SubSeq(s, 1, LeadingLetters(s)), DigitsValue(AfterLetters(s)))

\* the field references among tokens, in the order of the text
RefsAmong(tokens) ==
    [k \in 1..Cardinality(RefPositions(tokens)) |->
       FieldNamed(tokens[CHOOSE i \in RefPositions(tokens) :
                           Cardinality({ j \in RefPositions(tokens) : j < i })
                             = k - 1].s)]

\* the cells the formula of a cell refers to
Targets(rc) ==
    Bind(WellFormedTokens(CellText(rc)), LAMBDA tokens :
      { t \in Cells :
          \E i \in RefPositions(tokens) :
            /\ FieldNamed(tokens[i].s).row = t[1]
            /\ col_number_from_alpha(FieldNamed(tokens[i].s).col) = t[2] })

\* the references of the sheet, as pairs of a cell and a cell it refers to
References == UNION { { << rc, t >> : t \in Targets(rc) } : rc \in Cells }

\* the cells reached from a set of cells in up to n more steps along E
RECURSIVE ReachFrom(_, _, _)
ReachFrom(E, S, n) ==
    IF n = 0 THEN S
    ELSE ReachFrom(E, S \cup { e[2] : e \in { d \in E : d[1] \in S } }, n - 1)

\* a cell that, along E, refers to itself or is on a cycle of references
OnCycleOf(E, rc) ==
    rc \in ReachFrom(E, { e[2] : e \in { d \in E : d[1] = rc } }, Cardinality(Cells))

\* a cell that refers to itself or is on a cycle of references
OnCycle(rc) == Bind(References, LAMBDA E : OnCycleOf(E, rc))

\* C15: the evaluation, during run, of a cell that refers to itself or is on
\* a cycle of mutually referring formula cells never returns, neither with
\* a value nor with an error: it recurses until the call stack is exhausted.
C15_CycleNeverReturns ==
    (/\ run.state = "running"
     /\ << run.row, run.col >> \in Cells
     /\ OnCycle(<< run.row, run.col >>))
    => execute_field(CurrentCell, run.row + 1, MaxDepth) = StackOverflow

\* the state C15 fails in: on the line " x,=print(B1)" the cell B1 refers to
\* itself, the row has a snapshot since x was written to column A, and the
\* evaluation of B1 returns the formula's text
C15_CycleCutBySnapshot ==
    /\ lines = << HeaderLine, LineLateSelf >>
    /\ run = [row |-> 1, col |-> 1, state |-> "running"]
    /\ UpdatedIndex(1) # 0
    /\ OnCycle(<< 1, 1 >>)
    /\ execute_field(CurrentCell, 2, MaxDepth)
         = Ok(<< "=", "p", "r", "i", "n", "t", "(", "B", "1", ")" >>)

----------------------------------------------------------------------------
(* Properties of the number reader. *)

\* the characters read_number accumulates or rejects
IsNumberChar(c) == c \in Range(DigitChars) \cup { ".", "-" }

\* the leading characters of a text that are digits, '.' or '-'
NumberRun(field) ==
    SubSeq(field, 1,
           CHOOSE k \in 0..Len(field) :
             /\ \A j \in 1..k : IsNumberChar(field[j])
             /\ k < Len(field) => ~IsNumberChar(field[k + 1]))

\* the positions of a run the number reader rejects: a '-' after another
\* character, and a '.' after another '.'
Rejected(r) ==
    { i \in 1..Len(r) :
        \/ r[i] = "-" /\ i > 1
        \/ r[i] = "." /\ \E j \in 1..(i - 1) : r[j] = "." }

\* the digits of a run, without its sign and its point
DigitsOfRun(r) == SelectSeq(r, LAMBDA c : c \in Range(DigitChars))

\* a Number token holds the decimal a run spells
IsNumberOf(token, r) ==
    /\ token.t = "Number"
    /\ token.n.scale =
         IF \E i \in 1..Len(r) : r[i] = "."
         THEN Len(r) - (CHOOSE i \in 1..Len(r) : r[i] = ".")
         ELSE 0
    /\ NatText(IF token.n.int < 0 THEN 0 - token.n.int ELSE token.n.int)
         = IF StripZeros(DigitsOfRun(r)) = <<>> THEN << "0" >>
           ELSE StripZeros(DigitsOfRun(r))
    /\ token.n.int < 0 => r[1] = "-"
    /\ (r[1] = "-" /\ StripZeros(DigitsOfRun(r)) # <<>>) => token.n.int < 0

\* C16: on every input whose next character is a digit or '-', the number
\* reader either returns the Number token of the accumulated text (an
\* optional leading '-', digits, at most one '.') or a Tokenizer error:
\* "Invalid float number" on a second '.', "Invalid negative number" on a
\* '-' that follows an accumulated character; it never aborts.
C16_NumberOrError ==
    call.op = "read_number"
    => IF Rejected(NumberRun(call.field)) = {}
       THEN /\ result.kind = "Ok"
            /\ result.next = Len(NumberRun(call.field)) + 1
            /\ IsNumberOf(result.token, NumberRun(call.field))
       ELSE /\ result.kind = "Err"
            /\ result.err.kind = "Tokenizer"
            /\ result.err.line_number = 1
            /\ result.err.message =
                 IF NumberRun(call.field)[CHOOSE i \in Rejected(NumberRun(call.field)) :
                                            \A j \in Rejected(NumberRun(call.field)) : i <= j]
                      = "."
                 THEN << "Invalid float number" >>
                 ELSE << "Invalid negative number" >>

\* the state C16 fails in: the accumulated text of -;1 is the lone '-', which
\* is not a decimal, and the program aborts
C16_LoneMinusAborts ==
    /\ call.op = "read_number"
    /\ call.field = << "-", ";", "1" >>
    /\ result = Panic("is a number")

----------------------------------------------------------------------------
(* Properties of the pending updates. *)

\* C17: in every state reached by update_field calls, successful or
\* failing, on any rows and columns, the pending updates hold at most one
\* snapshot per row, and every snapshot has as many columns as the static
\* record of its row.
C17_OneSnapshotPerRow ==
    /\ \A i \in 1..Len(updated_records) : \A j \in 1..Len(updated_records) :
         updated_records[i][1] = updated_records[j][1] => i = j
    /\ \A i \in 1..Len(updated_records) :
         /\ updated_records[i][1] \in 0..(Len(lines) - 1)
         /\ Len(updated_records[i][2])
              = Cardinality(Commas(lines[updated_records[i][1] + 1])) + 1

\* C17's case: a row of two columns was updated twice, in its two columns,
\* and has one snapshot, of two columns
C17_RowUpdatedTwice ==
    /\ call.op = "update_field"
    /\ result.kind = "Ok"
    /\ history[<< 1, 0 >>].n = 1
    /\ history[<< 1, 1 >>].n = 1
    /\ Len(updated_records) = 1
    /\ updated_records[1][1] = 1
    /\ Len(updated_records[1][2]) = 2

----------------------------------------------------------------------------
(* Properties of the termination of run. *)

\* a sheet in which no cell reaches itself through its references
Acyclic == Bind(References, LAMBDA E : \A rc \in Cells : ~OnCycleOf(E, rc))

\* C18: on a sheet in which no formula cell reaches itself through its chain
\* of field references, every execute_field and get_field call of run
\* returns a value or an error, and run ends either with all rows written
\* or with the first error: it is never aborted.
C18_AcyclicRunReturns ==
    Acyclic
    => /\ run.state # "aborted"
       /\ (run.state = "running" /\ << run.row, run.col >> \in Cells)
          => execute_field(CurrentCell, run.row + 1, MaxDepth).kind
               \in {"Ok", "Err"}

\* the state C18 fails in: the sheet has no reference at all, and run was
\* aborted by the division by zero of its first formula
C18_AbortedWithoutCycle ==
    /\ lines = << HeaderLine, LineDivZero >>
    /\ Acyclic
    /\ run = [row |-> 1, col |-> 0, state |-> "aborted"]
    /\ result = Panic("Division by zero")

----------------------------------------------------------------------------
(* Properties of the order of evaluation. *)

\* the calls function_call evaluates for a call, in the order in which they
\* complete: those of its arguments that are calls, from left to right, and
\* then the call itself
RECURSIVE CallsInOrder(_)
CallsInOrder(x) ==
    Flatten([i \in 1..Len(x.arguments) |->
               IF x.arguments[i].e = "FunctionCall"
               THEN CallsInOrder(x.arguments[i])
               ELSE <<>>])
    \o << x >>

\* the first element of a sequence of outcomes that is not Ok; the last
\* element when all are Ok
FirstFailure(outcomes) ==
    IF \E k \in 1..Len(outcomes) : outcomes[k].kind # "Ok"
    THEN outcomes[CHOOSE k \in 1..Len(outcomes) :
                    /\ outcomes[k].kind # "Ok"
                    /\ \A j \in 1..(k - 1) : outcomes[j].kind = "Ok"]
    ELSE outcomes[Len(outcomes)]

\* the root call of a well-formed formula after its field references were
\* replaced by the values looked up
RootAfterLookups(tokens, line_number, depth) ==
    [parse(tokens, line_number).ast.function EXCEPT
       !.arguments =
          ResolveChildren(parse(tokens, line_number).ast.function.arguments,
                          mut_children(parse(tokens, line_number).ast), 1,
                          line_number, depth).arguments]

\* what C19 states about the formula of tokens `tokens` on line line_number
EvaluationInOrder(tokens, line_number, outcome) ==
    Bind([k \in 1..Len(RefsAmong(tokens)) |->
            FieldLookup(RefsAmong(tokens)[k], line_number, MaxDepth)],
         LAMBDA lookups :
           IF \E k \in 1..Len(lookups) : lookups[k].kind # "Ok"
           THEN outcome = FirstFailure(lookups)
           ELSE Bind(CallsInOrder(RootAfterLookups(tokens, line_number, MaxDepth)),
                     LAMBDA calls :
                       outcome = FirstFailure([k \in 1..Len(calls) |->
                                                 function_call(calls[k])])))

\* C19: within one execute_field of a formula cell, every field reference
\* of the formula, at any depth of calls and arrays, is looked up, from left
\* to right, before any builtin of the formula is dispatched: a formula fails
\* with the error of its first failing field reference whatever calls it
\* holds, and otherwise with the failure of the first call to fail when the
\* calls nested as arguments are evaluated from left to right before the
\* call that holds them.
C19_LookupsThenCalls ==
    (/\ run.state = "running"
     /\ << run.row, run.col >> \in Cells
     /\ WellFormedTokens(CurrentCell) # <<>>)
    => EvaluationInOrder(
         tokenize(Trim(TrimStartEq(CurrentCell)), run.row + 1).value,
         run.row + 1,
         execute_field(CurrentCell, run.row + 1, MaxDepth))

\* C19's case: run is about to execute =sum(foo(1);A9), whose unknown
\* function foo comes before the reference to the missing row 9, and the
\* evaluation fails with the error of the reference
C19_ReferenceFailsFirst ==
    /\ lines = << HeaderLine, LineCallThenFar >>
    /\ run = [row |-> 1, col |-> 0, state |-> "running"]
    /\ execute_field(CurrentCell, 2, MaxDepth).kind = "Err"
    /\ execute_field(CurrentCell, 2, MaxDepth)
         = FieldLookup(FieldExpr(<< "A" >>, 9), 2, MaxDepth)
    /\ function_call(FunctionCallExpression(<< "f", "o", "o" >>,
                                            << NumberExpr(Dec(1, 0)) >>, 2)).kind
         = "Err"

----------------------------------------------------------------------------
(* Properties of the case of column labels. *)

\* a label with its lowercase letters made uppercase
UpperLabel(alpha) ==
    [i \in 1..Len(alpha) |->
       IF alpha[i] \in Range(LowerLetters)
       THEN UpperLetters[CHOOSE k \in 1..26 : LowerLetters[k] = alpha[i]]
       ELSE alpha[i]]

\* C20: the column label of a field reference is case-insensitive: for every
\* label of letters, col_number_from_alpha returns the 0-based index of the
\* label's uppercase spelling, so that a1 and A1 name the same cell and a
\* single lowercase letter gives an index between 0 and 25.
C20_CaseInsensitive ==
    call.op = "col_number_from_alpha"
    => /\ result.value = Bijective26(UpperLabel(call.alpha)) - 1
       /\ Len(call.alpha) = 1 => result.value \in 0..25

\* the state C20 fails in: the label a gives the index 32, not the 0 of A
C20_LowercaseA ==
    /\ call = [op |-> "col_number_from_alpha", alpha |-> << "a" >>]
    /\ result = [kind |-> "Ok", value |-> 32]

====
